---- MODULE Spec2Model ----
(***************************************************************************)
(* PromptiTron web front ends.                                             *)
(*                                                                         *)
(*   src/Old_files/frontend/script.js  the transcript pipeline: the        *)
(*       transcript-form submit handler (download -> transcribe) and the   *)
(*       .action-btn click handler (derived analyses, export, search).     *)
(*   src/unnamed/part_000              class PrompitronApp: the chat       *)
(*       (sendAIMessage), the student profile, the manual operations.      *)
(*                                                                         *)
(* A JavaScript string is a sequence of tokens (characters or words), so   *)
(* that trim, split, join and the || default are computed, not assumed.    *)
(* Every async handler is a process: it runs synchronously up to its next  *)
(* await, and each await is resolved by a separate step of the network.    *)
(* `await fetch(..)` followed by `await res.json()` is one step: the       *)
(* handler touches no state between the two.                               *)
(***************************************************************************)
EXTENDS Integers, Sequences, FiniteSets, TLC

VARIABLES
    \* ---- script.js (page state) ----
    status,             \* #status .textContent
    transcriptOutput,   \* #transcript-output .textContent
    summaryOutput,      \* #summary-output .textContent
    currentTranscript,  \* window.currentTranscript
    downloads,          \* the <a download> links clicked by the export step
    tasks,              \* the invocations of the two handlers of script.js, each with
                        \* what it has sent and received while it is in flight
    \* ---- part_000 (PrompitronApp) ----
    aiInput,            \* #ai-user-input .value
    chat,               \* children of #ai-chat-container, in document order
    studentProfile,     \* this.studentProfile
    localStorage,       \* localStorage['promptitron_student_profile']
    profileForm,        \* #target-exam, #daily-hours, #weak-subjects
    notifications,      \* the alerts showNotification has put on the page
    sends,              \* the invocations of sendAIMessage, each with the request it
                        \* has in flight, then the response it got
    manualLoading,      \* #manual-loading is shown (and #manual-output hidden)
    manualOutput,       \* #manual-output .innerHTML
    execs,              \* the invocations of executeOperation, each with the request
                        \* it has in flight
    curriculumData,     \* this.curriculumData
    curriculumTree,     \* #curriculum-tree: what it shows, which subjects are open
    curriculumPc,       \* where loadCurriculum stands
    health,             \* #status-indicator .className and #status-text .textContent
    probes,             \* the invocations of checkHealth: in flight, or answered
    \* ---- observation ----
    lastCall,           \* the handler the user triggered last, and how many so far
    lastRes             \* the response a handler took off the wire last (script.js,
                        \* executeOperation)

scriptVars == <<status, transcriptOutput, summaryOutput, currentTranscript,
                downloads, tasks, lastRes>>
chatVars == <<aiInput, chat, studentProfile, localStorage, profileForm,
              notifications, sends>>
manualVars == <<manualLoading, manualOutput, execs>>
treeVars == <<curriculumData, curriculumTree, curriculumPc>>
healthVars == <<health, probes>>
appVars == <<aiInput, chat, studentProfile, localStorage, profileForm,
             notifications, sends, manualLoading, manualOutput, execs,
             curriculumData, curriculumTree, curriculumPc, health, probes>>
vars == <<status, transcriptOutput, summaryOutput, currentTranscript,
          downloads, tasks, aiInput, chat, studentProfile, localStorage,
          profileForm, notifications, sends, manualLoading, manualOutput,
          execs, curriculumData, curriculumTree, curriculumPc, health, probes,
          lastCall, lastRes>>

-----------------------------------------------------------------------------
(* Bounds *)

\* handlers the user triggers in one run (submits, clicks, sends, edits)
MaxCalls == 3

\* messages sent to the assistant in one run
MaxSends == 2

\* manual operations executed in one run
MaxExecs == 2

\* handlers triggered in one run in which both pages are followed together
MaxPageCalls == 2

\* the pieces a text given to formatMessage is made of, at most
MaxPieces == 3

\* health probes started in one run, the one of init() included
MaxProbes == 2

-----------------------------------------------------------------------------
(* JavaScript values *)

\* a value read from a JSON payload or held in a window property:
\* undefined, a string (token sequence) or an array of strings
Undef == [t |-> "undefined", s |-> <<>>, a |-> <<>>]
Str(x) == [t |-> "string", s |-> x, a |-> <<>>]
Arr(x) == [t |-> "array", s |-> <<>>, a |-> x]

\* ToBoolean: undefined and "" are falsy, every other string and every array truthy
Truthy(v) == \/ v.t = "array"
             \/ v.t = "string" /\ v.s # <<>>

\* v || d
OrElse(v, d) == IF Truthy(v) THEN v ELSE d

\* Array.prototype.join(sep) on an array of strings
RECURSIVE Join(_, _)
Join(a, sep) ==
    IF a = <<>> THEN <<>>
    ELSE IF Len(a) = 1 THEN a[1]
    ELSE a[1] \o sep \o Join(Tail(a), sep)

\* ToString, as the textContent setter and template literals apply it
\* (a nullable DOMString attribute turns undefined into null, i.e. "")
ToText(v) == CASE v.t = "string" -> v.s
               [] v.t = "array" -> Join(v.a, <<",">>)
               [] OTHER -> <<>>

\* JSON.stringify of an object literal: a property whose value is undefined
\* is left out of the text
JSONStringify(obj) == [k \in {f \in DOMAIN obj : obj[f] # Undef} |-> obj[k]]

\* String.prototype.split("/").pop(): the tokens after the last "/"
RECURSIVE LastSegment(_)
LastSegment(s) ==
    IF \A i \in 1..Len(s) : s[i] # "/" THEN s
    ELSE LastSegment(Tail(s))

-----------------------------------------------------------------------------
(* The remote service and the network *)

\* what one awaited call can come to: fetch rejects or res.json() throws
\* ("reject"), or a JSON object arrives; fetch resolves on every HTTP status, so
\* ok = FALSE is a service that answered with a failure and no result
Reject == [k |-> "reject", ok |-> FALSE, result |-> Undef]
Json(ok, v) == [k |-> "json", ok |-> ok, result |-> v]

\* the `result` values each /task endpoint of the service may answer with
Results(ep) ==
    CASE ep = "download" -> {Str(<<"a1">>), Str(<<"a2">>)}
      [] ep = "transcribe" -> {Str(<<"t1">>), Str(<<"t2">>)}
      [] ep = "export_pdf" -> {Str(<<"out", "/", "f.pdf">>)}
      [] ep = "build_vector_store" -> {Str(<<"ok">>)}
      [] ep = "search_similar" -> {Arr(<<<<"s1">>, <<"s2">>>>)}
      [] OTHER -> {Str(<<"r1">>)}

\* the answers to one call: a rejection, a failure without a result, or a result
Responses(ep) == {Reject, Json(FALSE, Undef)} \cup {Json(TRUE, v) : v \in Results(ep)}

\* what an invocation has put on and taken off the wire, in order
EmptyBody == [k \in {} |-> Undef]
Request(ep, body) == [e |-> "request", ep |-> ep, body |-> body, res |-> Reject]
Response(ep, r) == [e |-> "response", ep |-> ep, body |-> EmptyBody, res |-> r]

\* fetch("/task?task_name=" + ep, {method: "POST", body: JSON.stringify(obj)})
Fetch(ep, obj) == Request(ep, JSONStringify(obj))

-----------------------------------------------------------------------------
(* script.js *)

\* buttonTaskMap, keyed by the button's label (emoji left out)
buttonTaskMap ==
    [label \in {"Ozetle", "WorldCloud Olustur", "Calisma Plani", "Akil Haritasi",
                "Zor Sorular Uret", "Hafiza Kartlari", "Onemli Kavramlar",
                "Kaynak Oner", "Sinav Simulasyonu", "Kritik Cumleler",
                "Sorulari Grupla", "PDF Olarak Kaydet", "Paylasilabilir Link",
                "Kavram Testi Olustur"} |->
        CASE label = "Ozetle" -> "summarize"
          [] label = "WorldCloud Olustur" -> "worldcloud"
          [] label = "Calisma Plani" -> "studyplan"
          [] label = "Akil Haritasi" -> "mindmap"
          [] label = "Zor Sorular Uret" -> "quiz"
          [] label = "Hafiza Kartlari" -> "flashcards"
          [] label = "Onemli Kavramlar" -> "concepts"
          [] label = "Kaynak Oner" -> "resources"
          [] label = "Sinav Simulasyonu" -> "exam_simulation"
          [] label = "Kritik Cumleler" -> "search_similar"
          [] label = "Sorulari Grupla" -> "group_questions"
          [] label = "PDF Olarak Kaydet" -> "export_pdf"
          [] label = "Paylasilabilir Link" -> "share_link"
          [] OTHER -> "concept_quiz"]

\* the .action-btn elements the user clicks in the model
Buttons == {"Ozetle", "Kritik Cumleler", "PDF Olarak Kaydet"}

\* the values the user leaves in #yturl
Urls == {<<"u1">>}

\* the texts the handlers write to #status
StatusFetching == <<"Transkript aliniyor...">>
StatusTranscriptOk == <<"Transkript basariyla alindi.">>
StatusError == <<"Hata olustu.">>
StatusNeedTranscript == <<"Lutfen once transkript alin.">>
StatusStarting(label) == <<label, " baslatiliyor...">>
StatusDone(label) == <<label, " tamamlandi.">>
StatusFailed(label) == <<label, " sirasinda hata.">>
StatusPdf(filename) == <<"PDF indirildi: ">> \o filename

Task(kind, label, taskName, pc, log) ==
    [kind |-> kind, label |-> label, taskName |-> taskName, pc |-> pc, log |-> log]

\* the observation of one more handler call: which handler, the task or the
\* text it was given, and whether it returned before doing anything
Called(op, arg, text, blocked) ==
    [n |-> lastCall.n + 1, op |-> op, arg |-> arg, text |-> text, blocked |-> blocked]

\* the observation of one more response: the invocation that took it, the
\* endpoint it had called, and the response
Taken(i, r) == [i |-> i, ep |-> tasks[i].pc, res |-> r]

\* the invocations still waiting on the endpoint ep
Awaiting(ep) == {i \in 1..Len(tasks) : tasks[i].pc = ep}

\* an invocation takes the response r off the wire and either sends `more`
\* and waits at pc, or returns (pc "done" or "failed"): a handler that has
\* returned keeps no record of what it sent and received
Resume(i, r, pc, more) ==
    [tasks EXCEPT ![i].pc = pc,
                  ![i].log = IF pc \in {"done", "failed"} THEN <<>>
                             ELSE tasks[i].log \o <<Response(tasks[i].pc, r)>> \o more]

\* a submit that forgets the transcript of the chain before it
TranscriptFormSubmitClearing(url) ==
    /\ lastCall.n < MaxCalls
    /\ status' = StatusFetching
    /\ transcriptOutput' = <<>>
    /\ summaryOutput' = <<>>
    /\ currentTranscript' = Undef
    /\ tasks' = Append(tasks, Task("submit", "", "", "download",
                                    <<Fetch("download", [url |-> Str(url)])>>))
    /\ lastCall' = Called("submit", "", url, FALSE)
    /\ UNCHANGED downloads
    /\ UNCHANGED <<appVars, lastRes>>

\* lines 1-17: submit of #transcript-form, up to the first await
TranscriptFormSubmit(url) ==
    /\ lastCall.n < MaxCalls
    /\ status' = StatusFetching
    /\ transcriptOutput' = <<>>
    /\ summaryOutput' = <<>>
    /\ tasks' = Append(tasks, Task("submit", "", "", "download",
                                    <<Fetch("download", [url |-> Str(url)])>>))
    /\ lastCall' = Called("submit", "", url, FALSE)
    /\ UNCHANGED <<currentTranscript, downloads>>
    /\ UNCHANGED <<appVars, lastRes>>

\* lines 30-33: the catch of the submit handler
SubmitCatch(i, r) ==
    /\ status' = StatusError
    /\ tasks' = Resume(i, r, "failed", <<>>)
    /\ UNCHANGED <<transcriptOutput, summaryOutput, currentTranscript, downloads>>

\* the transcribe request built from the submitted form instead of the
\* download result
TranscribeFetchFromForm(r) ==
    Fetch("transcribe", [audio_path |-> Str(<<"u1">>)])

\* lines 20-24: the transcribe request, built from the download result
TranscribeFetch(r) ==
    Fetch("transcribe", [audio_path |-> r.result])

\* lines 18-24: the download response arrives; { result: audioPath } is taken
\* from it and the transcribe request is sent
DownloadRes(i, r) ==
    /\ i \in Awaiting("download")
    /\ tasks[i].kind = "submit"
    /\ IF r.k = "reject"
       THEN SubmitCatch(i, r)
       ELSE /\ tasks' = Resume(i, r, "transcribe", <<TranscribeFetch(r)>>)
            /\ UNCHANGED <<status, transcriptOutput, summaryOutput,
                           currentTranscript, downloads>>
    /\ lastRes' = Taken(i, r)
    /\ UNCHANGED <<appVars, lastCall>>

\* the transcribe response handled with a generation tag: only the chain
\* started last may write window.currentTranscript
TranscribeResNewestOnly(i, r) ==
    /\ i \in Awaiting("transcribe")
    /\ tasks[i].kind = "submit"
    /\ IF r.k = "reject"
       THEN SubmitCatch(i, r)
       ELSE /\ status' = StatusTranscriptOk
            /\ transcriptOutput' = ToText(r.result)
            /\ currentTranscript' =
                  IF \A j \in 1..Len(tasks) : tasks[j].kind = "submit" => j <= i
                  THEN r.result ELSE currentTranscript
            /\ tasks' = Resume(i, r, "done", <<>>)
            /\ UNCHANGED <<summaryOutput, downloads>>
    /\ lastRes' = Taken(i, r)
    /\ UNCHANGED <<appVars, lastCall>>

\* lines 25-29: the transcribe response arrives
TranscribeRes(i, r) ==
    /\ i \in Awaiting("transcribe")
    /\ tasks[i].kind = "submit"
    /\ IF r.k = "reject"
       THEN SubmitCatch(i, r)
       ELSE /\ status' = StatusTranscriptOk
            /\ transcriptOutput' = ToText(r.result)
            /\ currentTranscript' = r.result
            /\ tasks' = Resume(i, r, "done", <<>>)
            /\ UNCHANGED <<summaryOutput, downloads>>
    /\ lastRes' = Taken(i, r)
    /\ UNCHANGED <<appVars, lastCall>>

\* the prerequisite test with no step exempted
NeedsTranscriptNoExemption(taskName) ==
    ~Truthy(currentTranscript)

\* the prerequisite test with the two-call search step exempted as well
NeedsTranscriptExemptSearch(taskName) ==
    ~Truthy(currentTranscript) /\ taskName \notin {"export_pdf", "search_similar"}

\* line 60: the prerequisite test of the click handler
NeedsTranscript(taskName) ==
    ~Truthy(currentTranscript) /\ taskName # "export_pdf"

\* lines 69-79, 91-96, 110-114: the request a click sends before its first await
FirstFetch(taskName, cleared) ==
    CASE taskName = "export_pdf" ->
            Fetch("export_pdf",
                  [Transkript |-> OrElse(currentTranscript, Str(<<>>)),
                   Ozet |-> OrElse(Str(cleared), Str(<<>>))])
      [] taskName = "search_similar" ->
            Fetch("build_vector_store", [text |-> currentTranscript])
      [] OTHER ->
            Fetch(taskName, [text |-> currentTranscript])

\* lines 54-114: click on an .action-btn, up to the first await
ActionBtnClick(label) ==
    LET taskName == buttonTaskMap[label] IN
    /\ lastCall.n < MaxCalls
    /\ IF NeedsTranscript(taskName)
       THEN /\ status' = StatusNeedTranscript
            /\ lastCall' = Called("click", taskName, <<>>, TRUE)
            /\ UNCHANGED <<summaryOutput, tasks>>
       ELSE LET first == FirstFetch(taskName, <<>>) IN
            /\ status' = StatusStarting(label)
            /\ summaryOutput' = <<>>
            /\ tasks' = Append(tasks, Task("click", label, taskName, first.ep, <<first>>))
            /\ lastCall' = Called("click", taskName, <<>>, FALSE)
    /\ UNCHANGED <<transcriptOutput, currentTranscript, downloads>>
    /\ UNCHANGED <<appVars, lastRes>>

\* lines 119-122: the catch of the click handler
ClickCatch(i, r) ==
    /\ status' = StatusFailed(tasks[i].label)
    /\ tasks' = Resume(i, r, "failed", <<>>)
    /\ UNCHANGED <<transcriptOutput, summaryOutput, currentTranscript, downloads>>

\* lines 80-88: the export response arrives; pdfPath.split throws unless
\* pdfPath is a string
PdfResponse(i, r) ==
    /\ i \in Awaiting("export_pdf")
    /\ IF r.k = "reject" \/ r.result.t # "string"
       THEN ClickCatch(i, r)
       ELSE LET filename == LastSegment(r.result.s) IN
            /\ downloads' = Append(downloads,
                                   [href |-> <<"/download?file=">> \o r.result.s,
                                    download |-> filename])
            /\ status' = StatusPdf(filename)
            /\ tasks' = Resume(i, r, "done", <<>>)
            /\ UNCHANGED <<transcriptOutput, summaryOutput, currentTranscript>>
    /\ lastRes' = Taken(i, r)
    /\ UNCHANGED <<appVars, lastCall>>

\* lines 92-102: the fetch of build_vector_store settles (its body is never
\* read); the search_similar request follows
BuildVectorStoreRes(i, r) ==
    /\ i \in Awaiting("build_vector_store")
    /\ IF r.k = "reject"
       THEN ClickCatch(i, r)
       ELSE /\ tasks' = Resume(i, r, "search_similar",
                          <<Fetch("search_similar",
                                  [query |-> Str(<<"kritik bilgi, tanim ve ozet">>)])>>)
            /\ UNCHANGED <<status, transcriptOutput, summaryOutput,
                           currentTranscript, downloads>>
    /\ lastRes' = Taken(i, r)
    /\ UNCHANGED <<appVars, lastCall>>

\* lines 104-107: the search_similar response arrives; similarText.join
\* throws when similarText is undefined
SearchSimilarRes(i, r) ==
    /\ i \in Awaiting("search_similar")
    /\ IF r.k = "reject" \/ r.result.t = "undefined"
       THEN ClickCatch(i, r)
       ELSE /\ summaryOutput' = IF r.result.t = "array"
                                THEN Join(r.result.a, <<"\n\n">>)
                                ELSE ToText(r.result)
            /\ status' = StatusDone(tasks[i].label)
            /\ tasks' = Resume(i, r, "done", <<>>)
            /\ UNCHANGED <<transcriptOutput, currentTranscript, downloads>>
    /\ lastRes' = Taken(i, r)
    /\ UNCHANGED <<appVars, lastCall>>

\* the response of a derived analysis kept as the transcript as well
TaskResponseStoring(i, r) ==
    /\ i \in 1..Len(tasks)
    /\ tasks[i].kind = "click"
    /\ tasks[i].pc = tasks[i].taskName
    /\ tasks[i].taskName \notin {"export_pdf", "search_similar"}
    /\ IF r.k = "reject"
       THEN ClickCatch(i, r)
       ELSE /\ summaryOutput' = ToText(r.result)
            /\ currentTranscript' = r.result
            /\ status' = StatusDone(tasks[i].label)
            /\ tasks' = Resume(i, r, "done", <<>>)
            /\ UNCHANGED <<transcriptOutput, downloads>>
    /\ lastRes' = Taken(i, r)
    /\ UNCHANGED <<appVars, lastCall>>

\* lines 116-118: the response of any other task arrives
TaskResponse(i, r) ==
    /\ i \in 1..Len(tasks)
    /\ tasks[i].kind = "click"
    /\ tasks[i].pc = tasks[i].taskName
    /\ tasks[i].taskName \notin {"export_pdf", "search_similar"}
    /\ IF r.k = "reject"
       THEN ClickCatch(i, r)
       ELSE /\ summaryOutput' = ToText(r.result)
            /\ status' = StatusDone(tasks[i].label)
            /\ tasks' = Resume(i, r, "done", <<>>)
            /\ UNCHANGED <<transcriptOutput, currentTranscript, downloads>>
    /\ lastRes' = Taken(i, r)
    /\ UNCHANGED <<appVars, lastCall>>

-----------------------------------------------------------------------------
(* part_000: class PrompitronApp *)

\* the methods class PrompitronApp defines (lines 3-745); calling any other
\* name on `this` throws a TypeError
Methods == {"init", "setupEventListeners", "setupFormChangeListeners",
            "checkHealth", "loadCurriculum", "renderCurriculumTree",
            "showCurriculumError", "toggleSubject", "selectTopic",
            "loadStudentProfile", "updateStudentProfile", "updateProfileForm",
            "sendAIMessage", "addMessageToChat", "addLoadingToChat",
            "removeLoadingFromChat", "formatMessage", "escapeHtml",
            "selectOperation", "resetManualOperations", "executeOperation",
            "showManualLoading", "displayManualResult", "formatQuestions",
            "formatStudyPlan", "formatSearchResults", "formatAnalysis",
            "displayManualError", "uploadFile", "exportData", "showNotification"}

\* this[name](...) runs; otherwise "this.<name> is not a function" is thrown
IsFunction(name) == name \in Methods

\* JavaScript numbers, and the null JSON.stringify writes for NaN
Num(n) == [t |-> "number", n |-> n]
NaN == [t |-> "NaN", n |-> 0]
JsonNull == [t |-> "null", n |-> 0]

WhiteSpace == {" ", "\n", "\t"}

\* String.prototype.trim
RECURSIVE TrimStart(_)
TrimStart(s) ==
    IF s # <<>> /\ Head(s) \in WhiteSpace THEN TrimStart(Tail(s)) ELSE s
RECURSIVE TrimEnd(_)
TrimEnd(s) ==
    IF s # <<>> /\ s[Len(s)] \in WhiteSpace
    THEN TrimEnd(SubSeq(s, 1, Len(s) - 1))
    ELSE s
\* the text taken as typed
TrimNothing(s) == s

Trim(s) == TrimEnd(TrimStart(s))

DigitValue(c) ==
    CASE c = "0" -> 0 [] c = "1" -> 1 [] c = "2" -> 2 [] c = "3" -> 3
      [] c = "4" -> 4 [] c = "5" -> 5 [] c = "6" -> 6 [] c = "7" -> 7
      [] c = "8" -> 8 [] OTHER -> 9
IsDigit(c) == c \in {"0", "1", "2", "3", "4", "5", "6", "7", "8", "9"}

\* the value of the longest run of digits s starts with, after acc
RECURSIVE LeadingDigits(_, _)
LeadingDigits(s, acc) ==
    IF s # <<>> /\ IsDigit(Head(s))
    THEN LeadingDigits(Tail(s), 10 * acc + DigitValue(Head(s)))
    ELSE acc

\* parseInt(s): leading white space skipped, an optional sign, then digits;
\* NaN when no digit follows
ParseInt(s) ==
    LET t == TrimStart(s)
        neg == t # <<>> /\ Head(t) = "-"
        u == IF t # <<>> /\ Head(t) \in {"-", "+"} THEN Tail(t) ELSE t
    IN IF u = <<>> \/ ~IsDigit(Head(u)) THEN NaN
       ELSE Num(IF neg THEN 0 - LeadingDigits(u, 0) ELSE LeadingDigits(u, 0))

\* String(n) for the integers a form field is filled with
RECURSIVE NatToString(_)
NatToString(n) ==
    LET d == <<"0", "1", "2", "3", "4", "5", "6", "7", "8", "9">>[(n % 10) + 1] IN
    IF n < 10 THEN <<d>> ELSE NatToString(n \div 10) \o <<d>>
NumberToString(v) ==
    CASE v.t = "NaN" -> <<"NaN">>
      [] v.t = "null" -> <<>>
      [] v.n < 0 -> <<"-">> \o NatToString(0 - v.n)
      [] OTHER -> NatToString(v.n)

\* lines 6-12: the profile the constructor starts with
DefaultDailyHours == 6
DefaultProfile ==
    [student_id |-> "null", target_exam |-> "TYT", daily_hours |-> Num(DefaultDailyHours),
     weak_subjects |-> <<>>, strong_subjects |-> <<>>]

\* the text JSON.stringify writes for a number: its decimal digits, and null
\* for NaN
JSONNumberText(v) ==
    IF v.t \in {"NaN", "null"} THEN <<"null">> ELSE NumberToString(v)

\* the value JSON.parse reads from the text of an integer or of null
ParseJSONNumber(text) ==
    IF text = <<"null">> THEN JsonNull
    ELSE LET neg == Head(text) = "-"
             digits == IF neg THEN Tail(text) ELSE text
         IN Num(IF neg THEN 0 - LeadingDigits(digits, 0) ELSE LeadingDigits(digits, 0))

\* JSON.stringify(this.studentProfile): the text of the profile, field by
\* field (the string fields as their characters)
StringifyProfile(p) == [p EXCEPT !.daily_hours = JSONNumberText(@)]

\* JSON.parse of a stored profile text
ParseProfile(json) == [json EXCEPT !.daily_hours = ParseJSONNumber(@)]

\* what localStorage may hold under 'promptitron_student_profile' when the page
\* loads: nothing, or the text an earlier session wrote
StoredProfiles ==
    {<<>>,
     <<StringifyProfile([student_id |-> "null", target_exam |-> "AYT",
                         daily_hours |-> Num(4), weak_subjects |-> <<"fizik">>,
                         strong_subjects |-> <<>>])>>}

\* the values the user can give the three profile inputs
TargetExamOptions == {"TYT", "AYT"}
DailyHoursInputs == {<<>>, <<"4">>, <<"0">>}
WeakSubjectSelections == {<<>>, <<"fizik">>}

\* lines 225-237: updateProfileForm fills the profile inputs the page has;
\* hasWeakSubjects tells whether the page holds a #weak-subjects select
updateProfileForm(p, hasWeakSubjects) ==
    [targetExam |-> p.target_exam,
     dailyHours |-> NumberToString(p.daily_hours),
     weakSubjects |-> IF hasWeakSubjects THEN p.weak_subjects ELSE <<>>,
     hasWeakSubjects |-> hasWeakSubjects]

\* lines 726-744: showNotification puts an alert on the page
showNotification(message, type) ==
    Append(notifications, [message |-> message, type |-> type])

\* lines 738-743: the 5 s timer of the oldest alert removes it
NotificationTimeout ==
    /\ notifications # <<>>
    /\ notifications' = Tail(notifications)
    /\ UNCHANGED <<aiInput, chat, studentProfile, localStorage, profileForm, sends>>
    /\ UNCHANGED <<scriptVars, manualVars, treeVars, healthVars, lastCall>>

\* updateStudentProfile storing the profile as it is before line 217
updateStudentProfileStale(form) ==
    LET targetExam == form.targetExam
        dailyHours == form.dailyHours
        weakSubjects == IF form.hasWeakSubjects THEN form.weakSubjects ELSE <<>>
        p1 == IF targetExam # "" THEN [studentProfile EXCEPT !.target_exam = targetExam]
              ELSE studentProfile
        p2 == IF dailyHours # <<>> THEN [p1 EXCEPT !.daily_hours = ParseInt(dailyHours)]
              ELSE p1
        p3 == [p2 EXCEPT !.weak_subjects = weakSubjects]
    IN /\ lastCall.n < MaxCalls
       /\ profileForm' = form
       /\ studentProfile' = p3
       /\ localStorage' = <<StringifyProfile(p2)>>
       /\ notifications' = showNotification(<<"Profil guncellendi">>, "success")
       /\ lastCall' = Called("updateStudentProfile", "", <<>>, FALSE)
       /\ UNCHANGED <<aiInput, chat, sends>>
       /\ UNCHANGED <<scriptVars, manualVars, treeVars, healthVars>>

\* lines 207-223: updateStudentProfile, run by the change listener of a
\* profile input (lines 62-70) once the user has set the form to `form`
updateStudentProfile(form) ==
    LET targetExam == form.targetExam
        dailyHours == form.dailyHours
        weakSubjects == IF form.hasWeakSubjects THEN form.weakSubjects ELSE <<>>
        p1 == IF targetExam # "" THEN [studentProfile EXCEPT !.target_exam = targetExam]
              ELSE studentProfile
        p2 == IF dailyHours # <<>> THEN [p1 EXCEPT !.daily_hours = ParseInt(dailyHours)]
              ELSE p1
        p3 == [p2 EXCEPT !.weak_subjects = weakSubjects]
    IN /\ lastCall.n < MaxCalls
       /\ profileForm' = form
       /\ studentProfile' = p3
       /\ localStorage' = <<StringifyProfile(p3)>>
       /\ notifications' = showNotification(<<"Profil guncellendi">>, "success")
       /\ lastCall' = Called("updateStudentProfile", "", <<>>, FALSE)
       /\ UNCHANGED <<aiInput, chat, sends>>
       /\ UNCHANGED <<scriptVars, manualVars, treeVars, healthVars>>

\* a change event on one of the three profile inputs
ProfileInputChange ==
    \/ \E v \in TargetExamOptions :
          v # profileForm.targetExam
          /\ updateStudentProfile([profileForm EXCEPT !.targetExam = v])
    \/ \E v \in DailyHoursInputs :
          v # profileForm.dailyHours
          /\ updateStudentProfile([profileForm EXCEPT !.dailyHours = v])
    \/ \E v \in WeakSubjectSelections :
          profileForm.hasWeakSubjects /\ v # profileForm.weakSubjects
          /\ updateStudentProfile([profileForm EXCEPT !.weakSubjects = v])

-----------------------------------------------------------------------------
(* part_000: the chat *)

\* the texts the user types into #ai-user-input before pressing Enter
AiInputs == {<<>>, <<" ">>, <<" ", "a", " ">>}

\* the JSON object POST /ai-assistant answers with: its five fields the
\* handler reads
ChatData(error, response, text, questions, study_plan) ==
    [error |-> error, response |-> response, text |-> text,
     questions |-> questions, study_plan |-> study_plan]
NoData == ChatData(Undef, Undef, Undef, Undef, Undef)

\* what the awaited call can come to: fetch rejects or response.json() throws,
\* with the error's message, or a JSON object arrives
ChatReject == [k |-> "reject", message |-> <<"Failed to fetch">>, data |-> NoData]
ChatJson(data) == [k |-> "json", message |-> <<>>, data |-> data]

ChatResponses ==
    {ChatReject,
     ChatJson(NoData),
     ChatJson(ChatData(Str(<<"boom">>), Undef, Undef, Undef, Undef)),
     ChatJson(ChatData(Undef, Str(<<"r1">>), Undef, Undef, Undef)),
     ChatJson(ChatData(Undef, Undef, Str(<<"r2">>), Undef, Undef)),
     ChatJson(ChatData(Undef, Str(<<"r1">>), Undef, Arr(<<<<"q1">>>>), Undef)),
     ChatJson(ChatData(Undef, Str(<<"r1">>), Undef, Undef, Arr(<<<<"week1">>>>)))}

UserClass == "message user"
AssistantClass == "message assistant"
LoadingClass == "message assistant loading-message"

\* a child of #ai-chat-container: its class, the text it shows, and the
\* invocation of sendAIMessage that appended it
Entry(className, text, of) == [className |-> className, text |-> text, of |-> of]

\* lines 293-308: addMessageToChat(message, type) appends at the end
addMessageToChat(c, message, type, of) ==
    Append(c, Entry(IF type = "user" THEN UserClass ELSE AssistantClass, message, of))

\* lines 310-325: addLoadingToChat appends the placeholder at the end
addLoadingToChat(c, of) ==
    Append(c, Entry(LoadingClass, <<"AI dusunuyor...">>, of))

\* a removal that takes the first entry of the chat, whatever its class
removeFirstEntry(c) == IF c = <<>> THEN c ELSE Tail(c)

\* lines 327-332: removeLoadingFromChat removes the first .loading-message
\* of the document, if there is one
removeLoadingFromChat(c) ==
    LET at == {i \in 1..Len(c) : c[i].className = LoadingClass} IN
    IF at = {} THEN c
    ELSE LET first == CHOOSE i \in at : \A j \in at : i <= j IN
         SubSeq(c, 1, first - 1) \o SubSeq(c, first + 1, Len(c))

\* lines 239-266: sendAIMessage up to its await, run by the keypress listener
\* (lines 40-45) when the user has typed `text` and presses Enter
sendAIMessage(text) ==
    LET message == Trim(text)
        me == Len(sends) + 1
    IN /\ lastCall.n < MaxCalls
       /\ IF message = <<>>
          THEN /\ aiInput' = text
               /\ lastCall' = Called("sendAIMessage", "", text, TRUE)
               /\ UNCHANGED <<chat, sends>>
          ELSE /\ Len(sends) < MaxSends
               /\ aiInput' = <<>>
               /\ chat' = addLoadingToChat(addMessageToChat(chat, message, "user", me), me)
               /\ sends' = Append(sends,
                                  [pc |-> "fetch",
                                   request |-> <<[message |-> message,
                                                  student_profile |->
                                                      StringifyProfile(studentProfile)]>>,
                                   res |-> ChatReject])
               /\ lastCall' = Called("sendAIMessage", "", text, FALSE)
       /\ UNCHANGED <<studentProfile, localStorage, profileForm, notifications>>
       /\ UNCHANGED <<scriptVars, manualVars, treeVars, healthVars>>

\* the catch without its removeLoadingFromChat
SendCatchKeepLoading(c, message, of) ==
    addMessageToChat(c, <<"Baglanti hatasi: ">> \o message, "assistant", of)

\* lines 287-290: the catch of sendAIMessage
SendCatch(c, message, of) ==
    addMessageToChat(removeLoadingFromChat(c), <<"Baglanti hatasi: ">> \o message,
                     "assistant", of)

\* lines 279-284: the special response types; the renderer named is called
\* as a method of the app
SpecialResponse(c, data, of) ==
    IF Truthy(data.questions)
    THEN IF IsFunction("displayQuestions") THEN c
         ELSE SendCatch(c, <<"this.displayQuestions is not a function">>, of)
    ELSE IF Truthy(data.study_plan)
    THEN IF IsFunction("displayStudyPlan") THEN c
         ELSE SendCatch(c, <<"this.displayStudyPlan is not a function">>, of)
    ELSE c

\* lines 268-290: the response of /ai-assistant arrives
AiAssistantRes(i, r) ==
    /\ i \in 1..Len(sends)
    /\ sends[i].pc = "fetch"
    /\ chat' =
         IF r.k = "reject" THEN SendCatch(chat, r.message, i)
         ELSE LET data == r.data
                  c1 == removeLoadingFromChat(chat)
              IN IF Truthy(data.error)
                 THEN addMessageToChat(c1, <<"Hata: ">> \o ToText(data.error),
                                       "assistant", i)
                 ELSE LET assistantMessage ==
                              OrElse(data.response,
                                     OrElse(data.text, Str(<<"Yanit alinamadi">>)))
                      IN SpecialResponse(
                             addMessageToChat(c1, ToText(assistantMessage),
                                              "assistant", i),
                             data, i)
    /\ sends' = [sends EXCEPT ![i].pc = "done", ![i].request = <<>>, ![i].res = r]
    /\ UNCHANGED <<aiInput, studentProfile, localStorage, profileForm, notifications>>
    /\ UNCHANGED <<scriptVars, manualVars, treeVars, healthVars, lastCall>>

-----------------------------------------------------------------------------
(* part_000: the manual operations *)

\* the operations the switch of executeOperation has a case for (lines 411-458)
ManualOperations == {"chat", "generate-questions", "generate-study-plan",
                     "search", "analyze-content"}

\* what an onclick attribute of the page, or any caller of the global
\* executeOperation, passes: an operation, a name without a case, or nothing
OperationArgs == ManualOperations \cup {"translate", ""}

\* the elements executeOperation reads, each with its .value and .checked
FormElements == {"chat-message", "chat-use-memory", "question-subject",
                 "question-topic", "question-difficulty", "question-count",
                 "question-exam-type", "plan-target-exam", "plan-daily-hours",
                 "plan-duration", "search-query", "search-results",
                 "search-personalization", "analysis-content", "analysis-type",
                 "analysis-suggestions"}

\* the forms as the user may have left them: every field filled in, each
\* with a value of its own (a number in the four number fields, a word in the
\* others), every field empty, every field filled with the same word
FormWith(value, checked) ==
    [el \in FormElements |-> [value |-> value, checked |-> checked]]
FilledValue(el) ==
    CASE el = "question-count" -> <<"3">>
      [] el = "plan-daily-hours" -> <<"2">>
      [] el = "plan-duration" -> <<"8">>
      [] el = "search-results" -> <<"5">>
      [] OTHER -> <<"w:", el>>
FilledForm == [el \in FormElements |-> [value |-> FilledValue(el), checked |-> TRUE]]
ManualForms == {FilledForm, FormWith(<<>>, FALSE), FormWith(<<"x">>, FALSE)}

\* a boolean of a request
Bool(b) == [t |-> "boolean", b |-> b]

\* a request for questions with the subject and the topic in each other's field
QuestionRequestSwapped(form) ==
    [subject |-> Str(form["question-topic"].value),
     topic |-> Str(form["question-subject"].value),
     difficulty |-> Str(form["question-difficulty"].value),
     count |-> ParseInt(form["question-count"].value),
     exam_type |-> Str(form["question-exam-type"].value),
     question_type |-> Str(<<"MULTIPLE_CHOICE">>)]

\* lines 420-429: case 'generate-questions'
QuestionRequest(form) ==
    [subject |-> Str(form["question-subject"].value),
     topic |-> Str(form["question-topic"].value),
     difficulty |-> Str(form["question-difficulty"].value),
     count |-> ParseInt(form["question-count"].value),
     exam_type |-> Str(form["question-exam-type"].value),
     question_type |-> Str(<<"MULTIPLE_CHOICE">>)]

\* a request for a study plan built over the profile of the constructor
\* instead of the session's
StudyPlanRequestDefaults(form, profile) ==
    [student_profile |->
        [DefaultProfile EXCEPT !.target_exam = Str(form["plan-target-exam"].value),
                               !.daily_hours = ParseInt(form["plan-daily-hours"].value)],
     target_exam |-> Str(form["plan-target-exam"].value),
     duration_weeks |-> ParseInt(form["plan-duration"].value),
     daily_hours |-> ParseInt(form["plan-daily-hours"].value)]

\* lines 431-442: case 'generate-study-plan'
StudyPlanRequest(form, profile) ==
    [student_profile |->
        [profile EXCEPT !.target_exam = Str(form["plan-target-exam"].value),
                        !.daily_hours = ParseInt(form["plan-daily-hours"].value)],
     target_exam |-> Str(form["plan-target-exam"].value),
     duration_weeks |-> ParseInt(form["plan-duration"].value),
     daily_hours |-> ParseInt(form["plan-daily-hours"].value)]

\* lines 408-459: requestData, as the switch builds it from the form and the
\* profile; {} for an operation without a case
requestData(operation, form, profile) ==
    CASE operation = "chat" ->
            [message |-> Str(form["chat-message"].value),
             use_memory |-> Bool(form["chat-use-memory"].checked),
             student_id |-> profile.student_id]
      [] operation = "generate-questions" -> QuestionRequest(form)
      [] operation = "generate-study-plan" -> StudyPlanRequest(form, profile)
      [] operation = "search" ->
            [query |-> Str(form["search-query"].value),
             n_results |-> ParseInt(form["search-results"].value),
             include_personalization |-> Bool(form["search-personalization"].checked)]
      [] operation = "analyze-content" ->
            [content |-> Str(form["analysis-content"].value),
             analysis_type |-> Str(form["analysis-type"].value),
             include_suggestions |-> Bool(form["analysis-suggestions"].checked)]
      [] OTHER -> EmptyBody

\* JSON.stringify of a number: NaN is written as null
StringifyNumber(v) == IF v.t = "NaN" THEN JsonNull ELSE v

\* line 466: JSON.stringify(requestData)
StringifyRequestData(operation, req) ==
    CASE operation = "generate-questions" ->
            [req EXCEPT !.count = StringifyNumber(@)]
      [] operation = "generate-study-plan" ->
            [req EXCEPT !.student_profile = StringifyProfile(@),
                        !.duration_weeks = StringifyNumber(@),
                        !.daily_hours = StringifyNumber(@)]
      [] operation = "search" ->
            [req EXCEPT !.n_results = StringifyNumber(@)]
      [] OTHER -> req

\* lines 461-467: fetch(`/manual/${operation}`, {method: 'POST', body})
ManualFetch(operation, req) == Request(operation, StringifyRequestData(operation, req))

\* the JSON value POST /manual/<operation> answers with: an object with the
\* fields the renderers read, an array (of objects or nulls), or null
EmptyObject ==
    [shape |-> "object", items |-> <<>>, error |-> Undef, detail |-> Undef,
     response |-> Undef, text |-> Undef, overall_strategy |-> Undef,
     weekly_plans |-> Undef, results |-> Undef, analysis |-> Undef]
JsonArray(items) == [EmptyObject EXCEPT !.shape = "array", !.items = items]
NullData == [EmptyObject EXCEPT !.shape = "null"]

\* an entry of a list: null, or an object with its text (question_text of a
\* question, content of a search result)
ManualItem(isNull, text) == [isNull |-> isNull, text |-> text]

\* the payload the service answers a well-formed request with; for a path
\* it does not serve, the framework's not-found body
GoodPayload(operation) ==
    CASE operation = "chat" -> [EmptyObject EXCEPT !.response = Str(<<"r1">>)]
      [] operation = "generate-questions" ->
            JsonArray(<<ManualItem(FALSE, Str(<<"q1">>))>>)
      [] operation = "generate-study-plan" ->
            [EmptyObject EXCEPT !.overall_strategy = Str(<<"s1">>),
                                !.weekly_plans = Arr(<<<<"w1">>, <<"w2">>>>)]
      [] operation = "search" ->
            [EmptyObject EXCEPT !.results = Arr(<<ManualItem(FALSE, Str(<<"c1">>))>>)]
      [] operation = "analyze-content" ->
            [EmptyObject EXCEPT !.analysis = Str(<<"a1">>)]
      [] OTHER -> [EmptyObject EXCEPT !.detail = Str(<<"Not Found">>)]

\* what the awaited call can come to: fetch rejects or response.json() throws,
\* with the error's message, or a JSON value arrives
ManualReject == [k |-> "reject", message |-> <<"Failed to fetch">>, data |-> NullData]
ManualJson(data) == [k |-> "json", message |-> <<>>, data |-> data]

\* the answers to one call: a transport failure, an error indicator (next
\* to a response text), the payload, an object without the expected fields,
\* null, a list holding a null
ManualResponses(operation) ==
    {ManualReject,
     ManualJson([EmptyObject EXCEPT !.error = Str(<<"e1">>), !.response = Str(<<"r1">>)]),
     ManualJson(GoodPayload(operation)),
     ManualJson(EmptyObject),
     ManualJson(NullData),
     ManualJson(JsonArray(<<ManualItem(TRUE, Undef)>>))}

\* `${v}` in a template literal
TemplateText(v) == CASE v.t = "undefined" -> <<"undefined">>
                     [] v.t = "string" -> v.s
                     [] OTHER -> Join(v.a, <<",">>)

RECURSIVE Flatten(_)
Flatten(ss) == IF ss = <<>> THEN <<>> ELSE Head(ss) \o Flatten(Tail(ss))

\* an escaping that leaves every character as it is
escapeNothing(text) == ToText(text)

\* lines 354-358: escapeHtml; the textContent setter takes undefined as ""
EscapeToken(c) == CASE c = "&" -> "&amp;" [] c = "<" -> "&lt;" [] c = ">" -> "&gt;"
                    [] OTHER -> c
escapeHtml(text) == [k \in 1..Len(ToText(text)) |-> EscapeToken(ToText(text)[k])]

\* the characters mark stand in s at place i
MarkAt(s, mark, i) ==
    i + Len(mark) - 1 <= Len(s) /\ SubSeq(s, i, i + Len(mark) - 1) = mark

\* String.prototype.replace(/mark(.*?)mark/g, open $1 close): from the left,
\* each mark with the nearest mark after it on the same line, not overlapping
RECURSIVE ReplacePairs(_, _, _, _)
ReplacePairs(s, mark, open, close) ==
    LET m == Len(mark)
        first == {i \in 1..Len(s) : MarkAt(s, mark, i)}
    IN IF first = {} THEN s
       ELSE LET i == CHOOSE x \in first : \A y \in first : x <= y
                next == {j \in (i + m)..Len(s) : MarkAt(s, mark, j)}
            IN IF next = {} THEN s
               ELSE LET j == CHOOSE x \in next : \A y \in next : x <= y IN
                    IF \E k \in (i + m)..(j - 1) : s[k] = "\n"
                    THEN SubSeq(s, 1, i)
                            \o ReplacePairs(SubSeq(s, i + 1, Len(s)), mark, open, close)
                    ELSE SubSeq(s, 1, i - 1) \o <<open>> \o SubSeq(s, i + m, j - 1)
                            \o <<close>>
                            \o ReplacePairs(SubSeq(s, j + m, Len(s)), mark, open, close)

\* lines 334-352: formatMessage, over the characters of the message; the
\* entities and tags it writes are one token each. Once "\n" has become
\* "<br>" the list rule can only match a text that starts with "- ", and
\* takes all of it
formatMessage(message) ==
    LET escaped == escapeHtml(message)
        bold == ReplacePairs(escaped, <<"*", "*">>, "<strong>", "</strong>")
        italic == ReplacePairs(bold, <<"*">>, "<em>", "</em>")
        broken == [k \in 1..Len(italic) |-> IF italic[k] = "\n" THEN "<br>" ELSE italic[k]]
    IN IF Len(broken) > 2 /\ broken[1] = "-" /\ broken[2] = " "
       THEN <<"<ul>", "<li>">> \o SubSeq(broken, 3, Len(broken)) \o <<"</li>", "</ul>">>
       ELSE broken

\* lines 299-305 and 315-321: the innerHTML an entry of the chat is given:
\* the text of the user through escapeHtml, that of the assistant through
\* formatMessage, the placeholder's own markup
MessageHtml(entry) ==
    IF entry.className = UserClass
    THEN <<"<strong>Siz:</strong>">> \o escapeHtml(Str(entry.text))
    ELSE IF entry.className = AssistantClass
    THEN <<"<strong>AI Asistan:</strong>">> \o formatMessage(Str(entry.text))
    ELSE <<"<strong>AI Asistan:</strong>", "AI dusunuyor...">>

\* what a renderer comes to: the html it returns, or the TypeError it throws
Rendered(html) == [threw |-> FALSE, message |-> <<>>, html |-> html]
Thrown(message) == [threw |-> TRUE, message |-> message, html |-> <<>>]

\* lines 538-576: formatQuestions; question.question_text throws on a null entry
formatQuestions(data) ==
    IF data.shape # "array" THEN Rendered(<<"<p>Soru bulunamadi.</p>">>)
    ELSE IF \E k \in 1..Len(data.items) : data.items[k].isNull
    THEN Thrown(<<"Cannot read properties of null (reading 'question_text')">>)
    ELSE Rendered(<<"<h6>Uretilen Sorular</h6>">> \o
                  Flatten([k \in 1..Len(data.items) |->
                              <<"Soru ">> \o NatToString(k) \o <<":">>
                                 \o TemplateText(data.items[k].text)]))

\* lines 578-607: formatStudyPlan
formatStudyPlan(data) ==
    Rendered(<<"<h6>Calisma Plani</h6>">>
             \o (IF Truthy(data.overall_strategy)
                 THEN <<"Genel Strateji">> \o TemplateText(data.overall_strategy)
                 ELSE <<>>)
             \o (IF data.weekly_plans.t = "array"
                 THEN <<"Haftalik Plan">> \o
                      Flatten([k \in 1..Len(data.weekly_plans.a) |->
                                  <<"Hafta ">> \o NatToString(k) \o data.weekly_plans.a[k]])
                 ELSE <<>>))

\* lines 609-631: formatSearchResults; result.title throws on a null entry
formatSearchResults(data) ==
    IF data.results.t # "array"
    THEN Rendered(<<"<h6>Arama Sonuclari</h6>", "<p>Sonuc bulunamadi.</p>">>)
    ELSE IF \E k \in 1..Len(data.results.a) : data.results.a[k].isNull
    THEN Thrown(<<"Cannot read properties of null (reading 'title')">>)
    ELSE Rendered(<<"<h6>Arama Sonuclari</h6>">> \o
                  Flatten([k \in 1..Len(data.results.a) |->
                              <<"Basliksiz">> \o TemplateText(data.results.a[k].text)
                                 \o <<"Skor: ", "N/A">>]))

\* lines 633-647: formatAnalysis
formatAnalysis(data) ==
    Rendered(<<"<h6>Icerik Analizi</h6>">>
             \o (IF Truthy(data.analysis) THEN formatMessage(data.analysis) ELSE <<>>))

\* JSON.stringify(data, null, 2): the properties the value has
JSONText(data) ==
    IF data.shape = "array" THEN <<"[", "]">>
    ELSE Flatten([k \in 1..4 |->
            LET name == <<"error", "detail", "response", "analysis">>[k] IN
            IF data[name] = Undef THEN <<>> ELSE <<name, ":">> \o data[name].s])

\* what #manual-output holds: the class of the alert (none for a result), the
\* function that produced the markup, and the markup
Output(cls, by, html) == [cls |-> cls, by |-> by, html |-> html]
AlertDanger == "alert alert-danger"

\* lines 396-399: the text the slot shows before any operation
OutputPlaceholder == Output("", "resetManualOperations",
                            <<"Islem sonuclari burada goruntulenecek.">>)

\* lines 503-531: the renderer the switch of displayManualResult picks
SuccessRenderer(operation) ==
    CASE operation = "chat" -> "formatMessage"
      [] operation = "generate-questions" -> "formatQuestions"
      [] operation = "generate-study-plan" -> "formatStudyPlan"
      [] operation = "search" -> "formatSearchResults"
      [] operation = "analyze-content" -> "formatAnalysis"
      [] OTHER -> "JSON.stringify"
RenderSuccess(data, operation) ==
    CASE operation = "chat" ->
            Rendered(<<"<h6>Sohbet Yaniti</h6>">>
                     \o formatMessage(OrElse(data.response, data.text)))
      [] operation = "generate-questions" -> formatQuestions(data)
      [] operation = "generate-study-plan" -> formatStudyPlan(data)
      [] operation = "search" -> formatSearchResults(data)
      [] operation = "analyze-content" -> formatAnalysis(data)
      [] OTHER -> Rendered(<<"<pre>">> \o JSONText(data) \o <<"</pre>">>)

\* lines 649-659: displayManualError
displayManualError(error) == Output(AlertDanger, "displayManualError", <<"Hata:">> \o error)

\* displayManualResult without the test of data.error
displayManualResultNoErrorTest(data, operation) ==
    IF data.shape = "null"
    THEN [threw |-> TRUE, output |-> manualOutput,
          message |-> <<"Cannot read properties of null (reading 'error')">>]
    ELSE LET r == RenderSuccess(data, operation) IN
         [threw |-> r.threw, message |-> r.message,
          output |-> IF r.threw THEN manualOutput
                     ELSE Output("", SuccessRenderer(operation), r.html)]

\* lines 493-536: displayManualResult: what it writes to #manual-output, or
\* what it throws (data.error on null, or out of a renderer)
displayManualResult(data, operation) ==
    IF data.shape = "null"
    THEN [threw |-> TRUE, output |-> manualOutput,
          message |-> <<"Cannot read properties of null (reading 'error')">>]
    ELSE IF Truthy(data.error)
    THEN [threw |-> FALSE, message |-> <<>>,
          output |-> Output(AlertDanger, "displayManualResult",
                            <<"Hata: ">> \o TemplateText(data.error))]
    ELSE LET r == RenderSuccess(data, operation) IN
         [threw |-> r.threw, message |-> r.message,
          output |-> IF r.threw THEN manualOutput
                     ELSE Output("", SuccessRenderer(operation), r.html)]

\* one invocation of executeOperation
Exec(operation, pc, request) == [operation |-> operation, pc |-> pc, request |-> request]

\* an executeOperation that keeps the daily hours of the plan form in the
\* profile
executeOperationStoringOverrides(operation, form) ==
    /\ lastCall.n < MaxCalls
    /\ IF operation = ""
       THEN /\ lastCall' = Called("executeOperation", operation, <<>>, TRUE)
            /\ UNCHANGED <<manualVars, studentProfile>>
       ELSE /\ Len(execs) < MaxExecs
            /\ manualLoading' = TRUE
            /\ execs' = Append(execs,
                  Exec(operation, "fetch",
                       <<ManualFetch(operation, requestData(operation, form, studentProfile))>>))
            /\ studentProfile' =
                  IF operation = "generate-study-plan"
                  THEN [studentProfile EXCEPT
                           !.daily_hours = ParseInt(form["plan-daily-hours"].value)]
                  ELSE studentProfile
            /\ lastCall' = Called("executeOperation", operation, <<>>, FALSE)
            /\ UNCHANGED manualOutput
    /\ UNCHANGED <<aiInput, chat, localStorage, profileForm, notifications, sends>>
    /\ UNCHANGED <<treeVars, healthVars, scriptVars>>

\* lines 402-467: executeOperation, up to the await
executeOperation(operation, form) ==
    /\ lastCall.n < MaxCalls
    /\ IF operation = ""
       THEN /\ lastCall' = Called("executeOperation", operation, <<>>, TRUE)
            /\ UNCHANGED manualVars
       ELSE /\ Len(execs) < MaxExecs
            /\ manualLoading' = TRUE
            /\ execs' = Append(execs,
                  Exec(operation, "fetch",
                       <<ManualFetch(operation, requestData(operation, form, studentProfile))>>))
            /\ lastCall' = Called("executeOperation", operation, <<>>, FALSE)
            /\ UNCHANGED manualOutput
    /\ UNCHANGED <<chatVars, treeVars, healthVars, scriptVars>>

\* executeOperation without its catch: the rejection is left to the caller
\* and nothing more is written
ExecUncaught(i, message) ==
    /\ execs' = [execs EXCEPT ![i].pc = "failed", ![i].request = <<>>]
    /\ UNCHANGED <<manualLoading, manualOutput>>

\* a catch that shows the error under the loading indicator
ExecCatchKeepLoading(i, message) ==
    /\ manualOutput' = displayManualError(message)
    /\ execs' = [execs EXCEPT ![i].pc = "failed", ![i].request = <<>>]
    /\ UNCHANGED manualLoading

\* lines 474-477: the catch of executeOperation
ExecCatch(i, message) ==
    /\ manualLoading' = FALSE
    /\ manualOutput' = displayManualError(message)
    /\ execs' = [execs EXCEPT ![i].pc = "failed", ![i].request = <<>>]

\* an answer that is shown only when no later invocation has been started
ManualResNewestOnly(i, r) ==
    LET shown == displayManualResult(r.data, execs[i].operation)
        failed == r.k = "reject" \/ shown.threw
    IN /\ execs[i].pc = "fetch"
       /\ manualLoading' = FALSE
       /\ manualOutput' = IF i < Len(execs) THEN manualOutput
                          ELSE IF r.k = "reject" THEN displayManualError(r.message)
                          ELSE IF shown.threw THEN displayManualError(shown.message)
                          ELSE shown.output
       /\ execs' = [execs EXCEPT ![i].pc = IF failed THEN "failed" ELSE "done",
                                 ![i].request = <<>>]
       /\ lastRes' = [i |-> i, ep |-> execs[i].operation, res |-> r]
       /\ UNCHANGED <<chatVars, treeVars, healthVars, lastCall>>
       /\ UNCHANGED <<status, transcriptOutput, summaryOutput, currentTranscript,
                      downloads, tasks>>

\* lines 469-477: the response arrives; an invocation that has returned
\* keeps no record of what it sent
ManualRes(i, r) ==
    /\ execs[i].pc = "fetch"
    /\ IF r.k = "reject"
       THEN ExecCatch(i, r.message)
       ELSE LET shown == displayManualResult(r.data, execs[i].operation) IN
            IF shown.threw
            THEN ExecCatch(i, shown.message)
            ELSE /\ manualLoading' = FALSE
                 /\ manualOutput' = shown.output
                 /\ execs' = [execs EXCEPT ![i].pc = "done", ![i].request = <<>>]
    /\ lastRes' = [i |-> i, ep |-> execs[i].operation, res |-> r]
    /\ UNCHANGED <<chatVars, treeVars, healthVars, lastCall>>
    /\ UNCHANGED <<status, transcriptOutput, summaryOutput, currentTranscript,
                   downloads, tasks>>

-----------------------------------------------------------------------------
(* part_000: the health probe *)

\* what GET /api/health may come to: fetch rejects or response.json() throws,
\* or a JSON object arrives with its status
HealthReject == [k |-> "reject", status |-> Undef]
HealthJson(st) == [k |-> "json", status |-> Str(st)]
HealthResponses == {HealthReject, HealthJson(<<"healthy">>), HealthJson(<<"degraded">>)}

\* the indicator: its class and the text next to it; Unprobed is the markup
\* of the page, before any probe has been answered
Health(className, text) == [className |-> className, text |-> text]
Unprobed == Health("status-indicator", <<>>)

\* one invocation of checkHealth
Probe(pc, res) == [pc |-> pc, res |-> res]

\* lines 21 and 33: init() calls checkHealth, and the interval timer calls it
\* again every 30 s, whether or not the probes before it have been answered
checkHealth ==
    /\ Len(probes) < MaxProbes
    /\ probes' = Append(probes, Probe("fetch", HealthReject))
    /\ UNCHANGED <<health, lastCall>>
    /\ UNCHANGED <<chatVars, manualVars, treeVars, scriptVars>>

\* a probe that, answered, also takes the loading indicator of the manual
\* operations down
HealthResHidingLoading(i, r) ==
    /\ probes[i].pc = "fetch"
    /\ health' = IF r.k = "reject"
                 THEN Health("status-indicator status-unhealthy", <<"Baglanti Hatasi">>)
                 ELSE IF r.status = Str(<<"healthy">>)
                 THEN Health("status-indicator status-healthy", <<"Sistem Calisiyor">>)
                 ELSE Health("status-indicator status-unhealthy", <<"Sistem Hatasi">>)
    /\ probes' = [probes EXCEPT ![i] = Probe("done", r)]
    /\ manualLoading' = FALSE
    /\ UNCHANGED <<manualOutput, execs, lastCall>>
    /\ UNCHANGED <<chatVars, treeVars, scriptVars>>

\* lines 72-94: checkHealth takes the answer to its fetch
HealthRes(i, r) ==
    /\ probes[i].pc = "fetch"
    /\ health' = IF r.k = "reject"
                 THEN Health("status-indicator status-unhealthy", <<"Baglanti Hatasi">>)
                 ELSE IF r.status = Str(<<"healthy">>)
                 THEN Health("status-indicator status-healthy", <<"Sistem Calisiyor">>)
                 ELSE Health("status-indicator status-unhealthy", <<"Sistem Hatasi">>)
    /\ probes' = [probes EXCEPT ![i] = Probe("done", r)]
    /\ UNCHANGED <<manualVars, lastCall>>
    /\ UNCHANGED <<chatVars, treeVars, scriptVars>>

-----------------------------------------------------------------------------
(* part_000: the curriculum tree *)

\* a curriculum payload: an object of subjects in property order, each with
\* its list of topic names, or the JSON value null
Curriculum(subjects) == [shape |-> "object", subjects |-> subjects]
NullCurriculum == [shape |-> "null", subjects |-> <<>>]
Subject(name, topics) == [subject |-> name, topics |-> topics]

\* line 14: this.curriculumData = {}
EmptyCurriculum == Curriculum(<<>>)

\* what GET /curriculum may come to: fetch rejects or response.json() throws,
\* a status outside 200-299, or a JSON payload
CurriculumPayloads ==
    {Curriculum(<<Subject("fizik", <<"hareket">>), Subject("kimya", <<"asit">>)>>),
     EmptyCurriculum, NullCurriculum}
CurriculumReject == [k |-> "reject", ok |-> FALSE, data |-> EmptyCurriculum]
CurriculumJson(ok, data) == [k |-> "json", ok |-> ok, data |-> data]
ErrorBody == Curriculum(<<Subject("detail", <<>>)>>)
CurriculumResponses ==
    {CurriculumReject, CurriculumJson(FALSE, ErrorBody)}
    \cup {CurriculumJson(TRUE, d) : d \in CurriculumPayloads}

\* the subjects toggleSubject may be called for (one of them is in no payload)
SubjectNames == {"fizik", "kimya", "tarih"}

\* #curriculum-tree: the markup of the page, the tree of lines 109-143 (every
\* topic list hidden, every chevron down) or the message of lines 145-154
Tree(content, subjects) ==
    [content |-> content, subjects |-> subjects, open |-> {}, up |-> {},
     selected |-> <<>>]
TreePlaceholder == Tree("placeholder", <<>>)

\* lines 109-143: Object.entries throws a TypeError on null
renderCurriculumTree(data) ==
    IF data.shape = "null" THEN Thrown(<<"TypeError">>)
    ELSE Rendered(<<>>)

\* lines 145-154
showCurriculumError == Tree("error", <<>>)

\* loadCurriculum without the test of line 99
CurriculumResUnchecked(r) ==
    /\ curriculumPc = "fetch"
    /\ IF r.k = "reject"
       THEN /\ curriculumPc' = "failed"
            /\ curriculumTree' = showCurriculumError
            /\ UNCHANGED curriculumData
       ELSE /\ curriculumData' = r.data
            /\ IF renderCurriculumTree(r.data).threw
               THEN /\ curriculumPc' = "failed"
                    /\ curriculumTree' = showCurriculumError
               ELSE /\ curriculumPc' = "done"
                    /\ curriculumTree' = Tree("tree", r.data.subjects)
    /\ lastRes' = [i |-> 0, ep |-> "curriculum", res |-> r]
    /\ UNCHANGED <<aiInput, chat, studentProfile, localStorage, profileForm,
                   notifications, sends>>
    /\ UNCHANGED <<status, transcriptOutput, summaryOutput, currentTranscript,
                   downloads, tasks>>
    /\ UNCHANGED <<manualVars, healthVars, lastCall>>

\* lines 96-107: loadCurriculum takes the answer to its fetch
CurriculumRes(r) ==
    /\ curriculumPc = "fetch"
    /\ IF r.k = "reject"
       THEN /\ curriculumPc' = "failed"
            /\ curriculumTree' = showCurriculumError
            /\ UNCHANGED curriculumData
       ELSE IF ~r.ok
       THEN /\ curriculumPc' = "done"
            /\ UNCHANGED <<curriculumData, curriculumTree>>
       ELSE /\ curriculumData' = r.data
            /\ IF renderCurriculumTree(r.data).threw
               THEN /\ curriculumPc' = "failed"
                    /\ curriculumTree' = showCurriculumError
               ELSE /\ curriculumPc' = "done"
                    /\ curriculumTree' = Tree("tree", r.data.subjects)
    /\ lastRes' = [i |-> 0, ep |-> "curriculum", res |-> r]
    /\ UNCHANGED <<aiInput, chat, studentProfile, localStorage, profileForm,
                   notifications, sends>>
    /\ UNCHANGED <<status, transcriptOutput, summaryOutput, currentTranscript,
                   downloads, tasks>>
    /\ UNCHANGED <<manualVars, healthVars, lastCall>>

\* the subjects the tree shows
Shown == {curriculumTree.subjects[k].subject : k \in DOMAIN curriculumTree.subjects}

\* a toggle that shows the topics of the subject whatever their state
ToggleTreeOpenOnly(tree, subject) ==
    IF subject \in {tree.subjects[k].subject : k \in DOMAIN tree.subjects}
    THEN [tree EXCEPT !.open = @ \cup {subject}, !.up = @ \cup {subject}]
    ELSE tree

\* lines 157-167: what toggleSubject makes of the tree; without the element
\* subject-<subject> nothing happens
ToggleTree(tree, subject) ==
    LET isVisible == subject \in tree.open IN
    IF subject \in {tree.subjects[k].subject : k \in DOMAIN tree.subjects}
    THEN [tree EXCEPT
            !.open = IF isVisible THEN @ \ {subject} ELSE @ \cup {subject},
            !.up = IF isVisible THEN @ \ {subject} ELSE @ \cup {subject}]
    ELSE tree

\* lines 156-168: toggleSubject
toggleSubject(subject) ==
    /\ lastCall.n < MaxCalls
    /\ curriculumTree' = ToggleTree(curriculumTree, subject)
    /\ lastCall' = Called("toggleSubject", subject, <<>>, FALSE)
    /\ UNCHANGED <<curriculumData, curriculumPc, healthVars>>
    /\ UNCHANGED <<aiInput, chat, studentProfile, localStorage, profileForm,
                   notifications, sends>>
    /\ UNCHANGED <<scriptVars, manualVars>>

\* lines 170-197: selectTopic, the click handler of a topic of the tree; the
\* values it writes into the topic inputs and subject selects of the manual
\* forms are among the form values executeOperation is run with
selectTopic(k, j) ==
    LET subject == curriculumTree.subjects[k].subject
        topic == curriculumTree.subjects[k].topics[j]
    IN /\ lastCall.n < MaxCalls
       /\ curriculumTree' = [curriculumTree EXCEPT !.selected = <<subject, topic>>]
       /\ notifications' = showNotification(<<"Secildi: ", subject, " - ", topic>>, "info")
       /\ lastCall' = Called("selectTopic", subject, <<topic>>, FALSE)
       /\ UNCHANGED <<curriculumData, curriculumPc, healthVars>>
       /\ UNCHANGED <<aiInput, chat, studentProfile, localStorage, profileForm, sends>>
       /\ UNCHANGED <<scriptVars, manualVars>>

\* a click on a topic the tree shows
TopicClick ==
    \E k \in DOMAIN curriculumTree.subjects :
       \E j \in DOMAIN curriculumTree.subjects[k].topics : selectTopic(k, j)

-----------------------------------------------------------------------------
(* Specifications *)

\* script.js has just been loaded: nothing fetched, window.currentTranscript
\* never assigned
InitScript ==
    /\ status = <<>>
    /\ transcriptOutput = <<>>
    /\ summaryOutput = <<>>
    /\ currentTranscript = Undef
    /\ downloads = <<>>
    /\ tasks = <<>>
    /\ lastRes = [i |-> 0, ep |-> "", res |-> Reject]

\* new PrompitronApp(): the constructor (lines 4-17) and loadStudentProfile
\* (lines 199-205) have run over what localStorage held; the health probe and
\* the curriculum fetch that init() starts (lines 21, 24) have not been answered
InitPage(stored, hasWeakSubjects) ==
    /\ aiInput = <<>>
    /\ chat = <<>>
    /\ localStorage = stored
    /\ studentProfile = IF stored # <<>> THEN ParseProfile(stored[1]) ELSE DefaultProfile
    /\ profileForm = updateProfileForm(studentProfile, hasWeakSubjects)
    /\ notifications = <<>>
    /\ sends = <<>>
    /\ manualLoading = FALSE
    /\ manualOutput = OutputPlaceholder
    /\ execs = <<>>
    /\ curriculumData = EmptyCurriculum
    /\ curriculumTree = TreePlaceholder
    /\ curriculumPc = "fetch"
    /\ health = Unprobed
    /\ probes = <<Probe("fetch", HealthReject)>>

\* the page with all three profile inputs
InitApp(stored) == InitPage(stored, TRUE)

NoCall == [n |-> 0, op |-> "", arg |-> "", text |-> <<>>, blocked |-> FALSE]

\* the transcript page, which holds no PrompitronApp
InitTask == InitScript /\ InitApp(<<>>) /\ lastCall = NoCall

\* the assistant page, opened over whatever an earlier session stored
Init == InitScript /\ (\E stored \in StoredProfiles : InitApp(stored)) /\ lastCall = NoCall

\* the assistant page, opened for the first time
InitChat == InitScript /\ InitApp(<<>>) /\ lastCall = NoCall

\* script.js: the transcript page
NextTask ==
    \/ \E url \in Urls : TranscriptFormSubmit(url)
    \/ \E label \in Buttons : ActionBtnClick(label)
    \/ \E i \in 1..Len(tasks) : \E r \in Responses("download") : DownloadRes(i, r)
    \/ \E i \in 1..Len(tasks) : \E r \in Responses("transcribe") : TranscribeRes(i, r)
    \/ \E i \in 1..Len(tasks) : \E r \in Responses("export_pdf") : PdfResponse(i, r)
    \/ \E i \in 1..Len(tasks) : \E r \in Responses("build_vector_store") :
          BuildVectorStoreRes(i, r)
    \/ \E i \in 1..Len(tasks) : \E r \in Responses("search_similar") :
          SearchSimilarRes(i, r)
    \/ \E i \in 1..Len(tasks) : \E r \in Responses(tasks[i].taskName) : TaskResponse(i, r)

SpecTask == InitTask /\ [][NextTask]_vars

\* part_000: the assistant chat and the profile
NextChat ==
    \/ \E text \in AiInputs : sendAIMessage(text)
    \/ \E i \in 1..Len(sends) : \E r \in ChatResponses : AiAssistantRes(i, r)
    \/ ProfileInputChange
    \/ NotificationTimeout

SpecChat == InitChat /\ [][NextChat]_vars

\* the assistant page, opened for the first time, before any manual operation
InitExec == InitScript /\ InitApp(<<>>) /\ lastCall = NoCall

\* part_000: the manual operations
NextExec ==
    \/ \E operation \in OperationArgs : \E form \in ManualForms :
          executeOperation(operation, form)
    \/ \E i \in 1..Len(execs) : \E r \in ManualResponses(execs[i].operation) :
          ManualRes(i, r)

SpecExec == InitExec /\ [][NextExec]_vars

\* both pages side by side: every async handler of script.js and of
\* PrompitronApp, and the answers to their calls
InitHandlers == InitScript /\ InitApp(<<>>) /\ lastCall = NoCall

NextHandlers ==
    \/ lastCall.n < MaxPageCalls /\ \E url \in Urls : TranscriptFormSubmit(url)
    \/ lastCall.n < MaxPageCalls /\ \E label \in Buttons : ActionBtnClick(label)
    \/ \E i \in 1..Len(tasks) : \E r \in Responses("download") : DownloadRes(i, r)
    \/ \E i \in 1..Len(tasks) : \E r \in Responses("transcribe") : TranscribeRes(i, r)
    \/ \E i \in 1..Len(tasks) : \E r \in Responses("export_pdf") : PdfResponse(i, r)
    \/ \E i \in 1..Len(tasks) : \E r \in Responses("build_vector_store") :
          BuildVectorStoreRes(i, r)
    \/ \E i \in 1..Len(tasks) : \E r \in Responses("search_similar") :
          SearchSimilarRes(i, r)
    \/ \E i \in 1..Len(tasks) : \E r \in Responses(tasks[i].taskName) : TaskResponse(i, r)
    \/ lastCall.n < MaxPageCalls /\ \E text \in AiInputs : sendAIMessage(text)
    \/ \E i \in 1..Len(sends) : \E r \in ChatResponses : AiAssistantRes(i, r)
    \/ lastCall.n < MaxPageCalls /\ \E operation \in OperationArgs : \E form \in ManualForms :
          executeOperation(operation, form)
    \/ \E i \in 1..Len(execs) : \E r \in ManualResponses(execs[i].operation) :
          ManualRes(i, r)

SpecHandlers == InitHandlers /\ [][NextHandlers]_vars

\* the requests of the manual operations: the assistant page opened over
\* whatever an earlier session stored, every operation run from every form,
\* and a service that answers each request well
InitRequest == Init
NextRequest ==
    \/ \E operation \in OperationArgs : \E form \in ManualForms :
          executeOperation(operation, form)
    \/ \E i \in 1..Len(execs) : ManualRes(i, ManualJson(GoodPayload(execs[i].operation)))

SpecRequest == InitRequest /\ [][NextRequest]_vars

\* a page that takes the target exam and the daily hours from what is stored
\* and keeps its defaults for the rest
ReloadTakingTwoFields ==
    LET restored == IF localStorage # <<>>
                    THEN [DefaultProfile EXCEPT
                             !.target_exam = ParseProfile(localStorage[1]).target_exam,
                             !.daily_hours = ParseProfile(localStorage[1]).daily_hours]
                    ELSE DefaultProfile
    IN /\ lastCall.n < MaxCalls
       /\ studentProfile' = restored
       /\ profileForm' = updateProfileForm(restored, profileForm.hasWeakSubjects)
       /\ aiInput' = <<>>
       /\ chat' = <<>>
       /\ notifications' = <<>>
       /\ sends' = <<>>
       /\ manualLoading' = FALSE
       /\ manualOutput' = OutputPlaceholder
       /\ execs' = <<>>
       /\ curriculumData' = EmptyCurriculum
       /\ curriculumTree' = TreePlaceholder
       /\ curriculumPc' = "fetch"
       /\ health' = Unprobed
       /\ probes' = <<Probe("fetch", HealthReject)>>
       /\ lastCall' = Called("reload", "", <<>>, FALSE)
       /\ UNCHANGED <<localStorage, scriptVars>>

\* lines 779-783 over lines 4-34 and 199-205: the assistant page is loaded
\* again; a new PrompitronApp starts over what localStorage holds, and the
\* handlers of the page it replaces are gone
Reload ==
    LET restored == IF localStorage # <<>> THEN ParseProfile(localStorage[1])
                    ELSE DefaultProfile
    IN /\ lastCall.n < MaxCalls
       /\ studentProfile' = restored
       /\ profileForm' = updateProfileForm(restored, profileForm.hasWeakSubjects)
       /\ aiInput' = <<>>
       /\ chat' = <<>>
       /\ notifications' = <<>>
       /\ sends' = <<>>
       /\ manualLoading' = FALSE
       /\ manualOutput' = OutputPlaceholder
       /\ execs' = <<>>
       /\ curriculumData' = EmptyCurriculum
       /\ curriculumTree' = TreePlaceholder
       /\ curriculumPc' = "fetch"
       /\ health' = Unprobed
       /\ probes' = <<Probe("fetch", HealthReject)>>
       /\ lastCall' = Called("reload", "", <<>>, FALSE)
       /\ UNCHANGED <<localStorage, scriptVars>>

\* the pieces of the texts formatMessage is tried on: the marks of its
\* patterns, the characters of markup, a plain character
Pieces == {<<"*", "*">>, <<"*">>, <<"\n">>, <<"-", " ">>, <<"<">>, <<">">>, <<"&">>,
           <<"x">>}
RECURSIVE TextsOf(_)
TextsOf(n) ==
    IF n = 0 THEN {<<>>}
    ELSE LET shorter == TextsOf(n - 1) IN
         shorter \cup {piece \o t : piece \in Pieces, t \in shorter}
MarkupTexts == TextsOf(MaxPieces)

\* formatMessage: the manual chat operation is run once and the service
\* answers with a text made of the pieces, which displayManualResult formats
InitFormat == InitScript /\ InitApp(<<>>) /\ lastCall = NoCall
NextFormat ==
    \/ execs = <<>> /\ executeOperation("chat", FilledForm)
    \/ \E i \in 1..Len(execs) : \E text \in MarkupTexts :
          ManualRes(i, ManualJson([EmptyObject EXCEPT !.response = Str(text)]))

SpecFormat == InitFormat /\ [][NextFormat]_vars

\* the session: the assistant page and the transcript page just opened, the
\* curriculum fetch in flight; the user toggles subjects and picks topics,
\* and runs one operation of each kind: a chat message, a manual operation,
\* an acquisition chain, a derived step
InitCurriculum == InitScript /\ InitApp(<<>>) /\ lastCall = NoCall
NextCurriculum ==
    \/ \E r \in CurriculumResponses : CurriculumRes(r)
    \/ lastCall.n < MaxPageCalls /\ \E subject \in SubjectNames : toggleSubject(subject)
    \/ lastCall.n < MaxPageCalls /\ TopicClick
    \/ NotificationTimeout
    \/ lastCall.n < MaxPageCalls /\ sendAIMessage(<<" ", "a", " ">>)
    \/ \E i \in 1..Len(sends) : \E r \in ChatResponses : AiAssistantRes(i, r)
    \/ lastCall.n < MaxPageCalls /\ executeOperation("chat", FilledForm)
    \/ \E i \in 1..Len(execs) : \E r \in ManualResponses(execs[i].operation) :
          ManualRes(i, r)
    \/ lastCall.n < MaxPageCalls /\ TranscriptFormSubmit(<<"u1">>)
    \/ \E i \in 1..Len(tasks) : \E r \in Responses("download") : DownloadRes(i, r)
    \/ \E i \in 1..Len(tasks) : \E r \in Responses("transcribe") : TranscribeRes(i, r)
    \/ lastCall.n < MaxPageCalls /\ ActionBtnClick("Ozetle")
    \/ \E i \in 1..Len(tasks) : \E r \in Responses(tasks[i].taskName) : TaskResponse(i, r)

SpecCurriculum == InitCurriculum /\ [][NextCurriculum]_vars

\* the profile: the assistant page, with or without a #weak-subjects select,
\* opened over whatever an earlier session stored; the user changes the
\* profile inputs and reloads the page
InitProfile ==
    /\ InitScript
    /\ \E stored \in StoredProfiles : \E hasWeakSubjects \in BOOLEAN :
          InitPage(stored, hasWeakSubjects)
    /\ lastCall = NoCall
NextProfile ==
    \/ ProfileInputChange
    \/ NotificationTimeout
    \/ Reload

SpecProfile == InitProfile /\ [][NextProfile]_vars

\* the health probe beside the user's work: the probe of init() and those of
\* the interval timer are started and answered at any point between the
\* user's operation and the answers to it; the user runs one operation, of
\* any kind
InitHealth == InitScript /\ InitApp(<<>>) /\ lastCall = NoCall
NextHealth ==
    \/ checkHealth
    \/ \E i \in 1..Len(probes) : \E r \in HealthResponses : HealthRes(i, r)
    \/ \E r \in CurriculumResponses : CurriculumRes(r)
    \/ lastCall = NoCall /\ ProfileInputChange
    \/ lastCall = NoCall /\ sendAIMessage(<<" ", "a", " ">>)
    \/ \E i \in 1..Len(sends) : \E r \in ChatResponses : AiAssistantRes(i, r)
    \/ lastCall = NoCall /\ executeOperation("chat", FilledForm)
    \/ \E i \in 1..Len(execs) : \E r \in ManualResponses(execs[i].operation) :
          ManualRes(i, r)
    \/ lastCall = NoCall /\ TranscriptFormSubmit(<<"u1">>)
    \/ \E i \in 1..Len(tasks) : \E r \in Responses("download") : DownloadRes(i, r)
    \/ \E i \in 1..Len(tasks) : \E r \in Responses("transcribe") : TranscribeRes(i, r)

SpecHealth == InitHealth /\ [][NextHealth]_vars

\* markup from the service: every text of every payload is an element, and
\* so is what the user types into the chat
MarkupText == <<"<", "b", ">">>
MarkupPayload(operation) ==
    CASE operation = "chat" -> [EmptyObject EXCEPT !.response = Str(MarkupText)]
      [] operation = "generate-questions" ->
            JsonArray(<<ManualItem(FALSE, Str(MarkupText))>>)
      [] operation = "generate-study-plan" ->
            [EmptyObject EXCEPT !.overall_strategy = Str(MarkupText),
                                !.weekly_plans = Arr(<<MarkupText>>)]
      [] operation = "search" ->
            [EmptyObject EXCEPT !.results = Arr(<<ManualItem(FALSE, Str(MarkupText))>>)]
      [] OTHER -> [EmptyObject EXCEPT !.analysis = Str(MarkupText)]
MarkupResponses(operation) ==
    {ManualJson([EmptyObject EXCEPT !.error = Str(MarkupText)]),
     ManualJson(MarkupPayload(operation))}
MarkupChatResponses ==
    {ChatJson(ChatData(Str(MarkupText), Undef, Undef, Undef, Undef)),
     ChatJson(ChatData(Undef, Str(MarkupText), Undef, Undef, Undef)),
     ChatJson(ChatData(Undef, Undef, Str(MarkupText), Undef, Undef))}

InitMarkup == InitScript /\ InitApp(<<>>) /\ lastCall = NoCall
NextMarkup ==
    \/ lastCall.n < MaxPageCalls /\ \E operation \in ManualOperations :
          executeOperation(operation, FilledForm)
    \/ \E i \in 1..Len(execs) : \E r \in MarkupResponses(execs[i].operation) :
          ManualRes(i, r)
    \/ lastCall.n < MaxPageCalls /\ sendAIMessage(MarkupText)
    \/ \E i \in 1..Len(sends) : \E r \in MarkupChatResponses : AiAssistantRes(i, r)

SpecMarkup == InitMarkup /\ [][NextMarkup]_vars

\* the result slots: on the transcript page one acquisition chain, well
\* answered, and then derived analysis steps; on the assistant page manual
\* operations; the invocations overlap and are answered in any order
InitSlots == InitScript /\ InitApp(<<>>) /\ lastCall = NoCall
NextSlots ==
    \/ tasks = <<>> /\ TranscriptFormSubmit(<<"u1">>)
    \/ \E i \in 1..Len(tasks) : DownloadRes(i, Json(TRUE, Str(<<"a1">>)))
    \/ \E i \in 1..Len(tasks) : TranscribeRes(i, Json(TRUE, Str(<<"t1">>)))
    \/ \E label \in {"Ozetle", "Kritik Cumleler"} : ActionBtnClick(label)
    \/ \E i \in 1..Len(tasks) : \E r \in Responses(tasks[i].taskName) : TaskResponse(i, r)
    \/ \E operation \in {"chat", "search"} : executeOperation(operation, FilledForm)
    \/ \E i \in 1..Len(execs) : \E r \in ManualResponses(execs[i].operation) :
          ManualRes(i, r)

SpecSlots == InitSlots /\ [][NextSlots]_vars

-----------------------------------------------------------------------------
(* Properties of script.js, under SpecTask *)

\* the user has just triggered the handler op
JustCalled(op) == lastCall'.n = lastCall.n + 1 /\ lastCall'.op = op

SubmitTasks == {i \in 1..Len(tasks) : tasks[i].kind = "submit"}
SearchTasks == {i \in 1..Len(tasks) : tasks[i].taskName = "search_similar"}

IsRequest(ev, ep) == ev.e = "request" /\ ev.ep = ep
IsResponse(ev, ep) == ev.e = "response" /\ ev.ep = ep

\* a call that did not produce a usable result: the transport failed, or the
\* service answered with a failure or with no result
FailedResponse(ev) == ev.res.k = "reject" \/ ~ev.res.ok \/ ev.res.result = Undef

\* C1: a click on any step other than export while window.currentTranscript
\* is absent only writes the "get a transcript first" status: no invocation
\* starts and nothing is sent, and currentTranscript and the result slot keep
\* their values.
C1_PrerequisiteGate ==
    [][(JustCalled("click") /\ lastCall'.arg # "export_pdf" /\ currentTranscript = Undef)
          => /\ status' = StatusNeedTranscript
             /\ tasks' = tasks
             /\ currentTranscript' = currentTranscript
             /\ summaryOutput' = summaryOutput
             /\ downloads' = downloads]_vars

\* a chain has completed without yielding a transcript, and a click on the
\* search step has been turned away
C1_Witness ==
    /\ lastCall.op = "click" /\ lastCall.arg = "search_similar" /\ lastCall.blocked
    /\ currentTranscript = Undef
    /\ status = StatusNeedTranscript
    /\ \E i \in SubmitTasks : tasks[i].pc = "done"

\* C2: a chain waiting on download has sent the download request and nothing
\* else; a chain waiting on transcribe has sent download, received its
\* response, and only then sent a transcribe request whose audio_path is the
\* result of that response (no audio_path when the response had no result).
C2_PipelineOrdering ==
    \A i \in SubmitTasks :
        LET log == tasks[i].log IN
        /\ tasks[i].pc = "download" =>
              /\ Len(log) = 1
              /\ IsRequest(log[1], "download")
        /\ tasks[i].pc = "transcribe" =>
              /\ Len(log) = 3
              /\ IsRequest(log[1], "download")
              /\ IsResponse(log[2], "download") /\ log[2].res.k = "json"
              /\ IsRequest(log[3], "transcribe")
              /\ IF log[2].res.result = Undef
                 THEN DOMAIN log[3].body = {}
                 ELSE /\ DOMAIN log[3].body = {"audio_path"}
                      /\ log[3].body["audio_path"] = log[2].res.result

\* a chain is waiting on transcribe after the download answered "a2"
C2_Witness ==
    \E i \in SubmitTasks :
        /\ tasks[i].pc = "transcribe"
        /\ tasks[i].log[2].res.result = Str(<<"a2">>)
        /\ tasks[i].log[3].body["audio_path"] = Str(<<"a2">>)

\* C3: in no chain does a transcribe request follow a download response that
\* failed (transport failure, failure answer, or no result).
C3_NoTranscribeAfterFailedRetrieval ==
    \A i \in SubmitTasks :
        \A j \in 1..Len(tasks[i].log) :
            (IsResponse(tasks[i].log[j], "download") /\ FailedResponse(tasks[i].log[j]))
               => \A k \in (j + 1)..Len(tasks[i].log) :
                     ~IsRequest(tasks[i].log[k], "transcribe")

\* C4: in the find-related-passages step the search_similar request is sent
\* only after the build_vector_store call has come back, and never after a
\* build_vector_store call that failed.
C4_IndexThenQuery ==
    \A i \in SearchTasks :
        LET log == tasks[i].log IN
        \A k \in 1..Len(log) :
            IsRequest(log[k], "search_similar")
               => /\ k = 3
                  /\ IsRequest(log[1], "build_vector_store")
                  /\ IsResponse(log[2], "build_vector_store")
                  /\ log[2].res.k = "json" /\ log[2].res.ok

\* the chains that ran to the end of the try block
Completed == {i \in SubmitTasks : tasks[i].pc = "done"}

\* C11: whenever the response taken last is a transcription that succeeded,
\* window.currentTranscript is that response's result, whichever chain took
\* it and whenever that chain was started: the last writer wins.
C11_LastWriterWins ==
    (lastRes.ep = "transcribe" /\ lastRes.res.k = "json" /\ lastRes.res.ok)
       => currentTranscript = lastRes.res.result

\* two chains were in flight together and both completed; the one started
\* first resolved last, and its transcript is the one that is kept
C11_Witness ==
    /\ {1, 2} \subseteq Completed
    /\ lastRes.i = 1 /\ lastRes.ep = "transcribe" /\ lastRes.res.ok
    /\ currentTranscript = Str(<<"t1">>)
    /\ transcriptOutput = <<"t1">>

\* C12: a step in which a chain takes a failed response (the transport
\* failed, or the service answered with a failure) ends that chain, leaves
\* window.currentTranscript as it was, and writes the error status.
C12_FailureHaltsKeepsTranscript ==
    [][(lastRes' # lastRes /\ lastRes'.i \in SubmitTasks /\ FailedResponse(lastRes'))
          => /\ tasks'[lastRes'.i].pc = "failed"
             /\ currentTranscript' = currentTranscript
             /\ status' = StatusError]_vars

ClickTasks == {i \in 1..Len(tasks) : tasks[i].kind = "click"}

ExportTasks == {i \in ClickTasks : tasks[i].taskName = "export_pdf"}

\* C14: a click on the export step while window.currentTranscript is absent
\* is not turned away: it starts an invocation that sends the export_pdf
\* request with an empty transcript section; and the step in which an export
\* invocation takes an answer carrying a path appends one download link and
\* leaves window.currentTranscript as it was.
C14_ExportExempt ==
    [][/\ (JustCalled("click") /\ lastCall'.arg = "export_pdf" /\ ~Truthy(currentTranscript))
          => /\ ~lastCall'.blocked
             /\ Len(tasks') = Len(tasks) + 1
             /\ tasks'[Len(tasks')].pc = "export_pdf"
             /\ IsRequest(tasks'[Len(tasks')].log[1], "export_pdf")
             /\ tasks'[Len(tasks')].log[1].body["Transkript"] = Str(<<>>)
       /\ (lastRes' # lastRes /\ lastRes'.ep = "export_pdf" /\ lastRes'.res.k = "json"
             /\ lastRes'.res.result.t = "string")
          => /\ Len(downloads') = Len(downloads) + 1
             /\ downloads'[Len(downloads')].download = LastSegment(lastRes'.res.result.s)
             /\ tasks'[lastRes'.i].pc = "done"
             /\ currentTranscript' = currentTranscript]_vars

\* with no transcript ever stored, an export has been answered and its
\* document link produced
C14_Witness ==
    /\ currentTranscript = Undef
    /\ SubmitTasks = {}
    /\ \E i \in ExportTasks : tasks[i].pc = "done"
    /\ Len(downloads) = 1 /\ downloads[1].download = <<"f.pdf">>

\* C15: the request a click on the export step sends carries, as its
\* transcript section, window.currentTranscript (empty when absent) and, as
\* its summary section, the text #summary-output showed when the click came.
C15_ExportSections ==
    [][(JustCalled("click") /\ lastCall'.arg = "export_pdf")
          => LET body == tasks'[Len(tasks')].log[1].body IN
             /\ Len(tasks') = Len(tasks) + 1
             /\ body["Transkript"] = OrElse(currentTranscript, Str(<<>>))
             /\ body["Ozet"] = Str(summaryOutput)]_vars

-----------------------------------------------------------------------------
(* Properties of the chat, under SpecChat *)

Pending == {k \in 1..Len(chat) : chat[k].className = LoadingClass}
InFlight == {i \in 1..Len(sends) : sends[i].pc = "fetch"}
Resolved == {i \in 1..Len(sends) : sends[i].pc = "done"}

\* the places in the chat of the entries of class cls that send i appended
EntriesOf(i, cls) == {k \in 1..Len(chat) : chat[k].of = i /\ chat[k].className = cls}

\* a typed text that trimming leaves empty
Blank(text) == \A k \in 1..Len(text) : text[k] \in {" ", "\n", "\t"}

\* C5: the chat never holds more than one pending placeholder, and a
\* placeholder is always the last entry.
C5_AtMostOnePending ==
    /\ Cardinality(Pending) <= 1
    /\ \A k \in Pending : k = Len(chat)

\* C6: the chat never holds more placeholders than there are requests in
\* flight; with no request in flight (however each one ended: an answer, an
\* error answer, a transport failure, a renderer that threw) it holds none.
C6_PendingRemoved ==
    /\ Cardinality(Pending) <= Cardinality(InFlight)
    /\ InFlight = {} => Pending = {}

\* two requests have ended, one by a transport failure and one in the
\* renderer of a question set, and no request is in flight
C6_Witness ==
    /\ Len(sends) = 2 /\ InFlight = {}
    /\ \E i \in Resolved : sends[i].res.k = "reject"
    /\ \E i \in Resolved : sends[i].res.k = "json" /\ Truthy(sends[i].res.data.questions)
    /\ Pending = {}

\* C7: a resolved send has exactly one assistant entry, and it directly
\* follows the user entry of that send.
C7_OneAssistantEntryInPlace ==
    \A i \in Resolved :
        /\ Cardinality(EntriesOf(i, AssistantClass)) = 1
        /\ \A u \in EntriesOf(i, UserClass) : \A a \in EntriesOf(i, AssistantClass) :
              a = u + 1

\* C8: a send in flight has appended its user entry and then its placeholder
\* and sent the message with the profile; once it has resolved it has
\* appended one assistant entry: the response text when the answer carries
\* one and no error, the error string when it carries an error, the
\* connection error string when the transport failed.
C8_SendSteps ==
    /\ \A i \in InFlight :
          /\ Cardinality(EntriesOf(i, UserClass)) = 1
          /\ EntriesOf(i, AssistantClass) = {}
          /\ sends[i].request[1].message = chat[CHOOSE u \in EntriesOf(i, UserClass) : TRUE].text
    /\ \A i \in Resolved :
          LET r == sends[i].res
              mine == EntriesOf(i, AssistantClass)
          IN /\ Cardinality(mine) = 1
             /\ \A a \in mine :
                   /\ \A u \in EntriesOf(i, UserClass) : u < a
                   /\ r.k = "reject" => chat[a].text = <<"Baglanti hatasi: ">> \o r.message
                   /\ (r.k = "json" /\ r.data.error # Undef)
                         => chat[a].text = <<"Hata: ">> \o r.data.error.s
                   /\ (r.k = "json" /\ r.data.error = Undef /\ r.data.response # Undef)
                         => chat[a].text = r.data.response.s

\* C9: Enter on a text that trimming leaves empty changes neither the chat
\* nor the profile nor what is stored, and sends nothing.
C9_BlankMessageIgnored ==
    [][(JustCalled("sendAIMessage") /\ Blank(lastCall'.text))
          => /\ chat' = chat
             /\ sends' = sends
             /\ studentProfile' = studentProfile
             /\ localStorage' = localStorage
             /\ notifications' = notifications]_vars

\* after one exchange with the assistant, Enter on a single space was ignored
C9_Witness ==
    /\ lastCall.op = "sendAIMessage" /\ lastCall.text = <<" ">> /\ lastCall.blocked
    /\ Resolved # {}
    /\ Len(chat) = 2

\* C10: a send resolved by an answer without error that carries a question
\* set or a study plan has appended the answer's text as its only assistant
\* entry: no error entry was added.
C10_StructuredPayloadNoError ==
    \A i \in Resolved :
        LET r == sends[i].res IN
        (r.k = "json" /\ r.data.error = Undef
            /\ (r.data.questions # Undef \/ r.data.study_plan # Undef))
           => \A a \in EntriesOf(i, AssistantClass) : chat[a].text = r.data.response.s

-----------------------------------------------------------------------------
(* Properties of the manual operations, under SpecExec *)

ExecsInFlight == {i \in 1..Len(execs) : execs[i].pc = "fetch"}

\* the slot holds an error model: an alert of class alert-danger
ErrorModel(output) == output.cls = AlertDanger

\* C16: executeOperation called with a name the switch has no case for
\* starts no invocation (no request is built, nothing is sent) and leaves an
\* error model in #manual-output.
C16_UnknownOperationRejected ==
    [][(JustCalled("executeOperation") /\ lastCall'.arg \notin ManualOperations \cup {""})
          => /\ execs' = execs
             /\ ErrorModel(manualOutput')]_vars

PositiveInt(v) == v.t = "number" /\ v.n > 0

\* the request of a registered operation carries its text and positive
\* numbers where the form asks for them
ValidRequest(operation, body) ==
    CASE operation = "chat" -> body.message.s # <<>>
      [] operation = "generate-questions" -> PositiveInt(body.count)
      [] operation = "generate-study-plan" ->
            PositiveInt(body.duration_weeks) /\ PositiveInt(body.daily_hours)
      [] operation = "search" -> body.query.s # <<>> /\ PositiveInt(body.n_results)
      [] OTHER -> body.content.s # <<>>

\* C17: a call of executeOperation with a registered operation either sends
\* a request whose required inputs are present and valid, or (an input being
\* empty or not a positive integer) sends nothing and leaves an error model
\* in #manual-output.
C17_InvalidInputRejected ==
    [][(JustCalled("executeOperation") /\ lastCall'.arg \in ManualOperations)
          => \/ /\ Len(execs') = Len(execs) + 1
                /\ ValidRequest(lastCall'.arg, execs'[Len(execs')].request[1].body)
             \/ /\ execs' = execs
                /\ ErrorModel(manualOutput')]_vars

\* an invocation of executeOperation has just taken a response
JustAnswered == lastRes' # lastRes

\* C18: the step in which an invocation takes an answer whose `error` is set
\* writes to #manual-output an alert that carries that error text, not the
\* markup of the operation's renderer, whatever the operation and whatever
\* else the answer holds.
C18_RemoteErrorRendered ==
    [][(JustAnswered /\ lastRes'.res.k = "json" /\ Truthy(lastRes'.res.data.error))
          => /\ ErrorModel(manualOutput')
             /\ manualOutput'.html = <<"Hata: ">> \o lastRes'.res.data.error.s
             /\ manualOutput'.by # SuccessRenderer(lastRes'.ep)
             /\ ~manualLoading']_vars

\* a chat operation was answered with an error next to a response text, and
\* the slot shows the error
C18_Witness ==
    /\ lastRes.ep = "chat" /\ lastRes.res.k = "json"
    /\ lastRes.res.data.error = Str(<<"e1">>)
    /\ lastRes.res.data.response = Str(<<"r1">>)
    /\ manualOutput = Output(AlertDanger, "displayManualResult", <<"Hata: ", "e1">>)

\* C19: each kind of failure of executeOperation leaves an error model in
\* #manual-output, the slot a success writes: a call whose inputs are not
\* valid, an answer whose `error` is set, and a transport failure (which
\* leaves no success model).
C19_FailuresRenderedInSlot ==
    [][/\ (JustCalled("executeOperation") /\ lastCall'.arg \in ManualOperations)
          => \/ /\ Len(execs') = Len(execs) + 1
                /\ ValidRequest(lastCall'.arg, execs'[Len(execs')].request[1].body)
             \/ ErrorModel(manualOutput')
       /\ (JustAnswered /\ lastRes'.res.k = "json" /\ Truthy(lastRes'.res.data.error))
          => ErrorModel(manualOutput')
       /\ (JustAnswered /\ lastRes'.res.k = "reject")
          => /\ ErrorModel(manualOutput')
             /\ manualOutput'.by = "displayManualError"]_vars

-----------------------------------------------------------------------------
(* Properties of all handlers, under SpecHandlers *)

\* the endpoints script.js calls
ScriptEndpoints == {"download", "transcribe", "build_vector_store"}
                      \cup {buttonTaskMap[label] : label \in Buttons}

\* the answer r makes the handler of script.js throw: the call failed, or
\* split / join is read off a result that is not there
ScriptThrows(ep, r) ==
    \/ r.k = "reject"
    \/ ep = "export_pdf" /\ r.result.t # "string"
    \/ ep = "search_similar" /\ r.result.t = "undefined"

\* the answer r makes executeOperation throw: the call failed, or the answer
\* is null, or the renderer throws
ExecThrows(operation, r) ==
    \/ r.k = "reject"
    \/ r.data.shape = "null"
    \/ ~Truthy(r.data.error) /\ RenderSuccess(r.data, operation).threw

\* the answer r makes sendAIMessage throw: the call failed, or the handler
\* calls a renderer the class does not define
SendThrows(r) ==
    \/ r.k = "reject"
    \/ /\ ~Truthy(r.data.error)
       /\ \/ Truthy(r.data.questions) /\ ~IsFunction("displayQuestions")
          \/ ~Truthy(r.data.questions) /\ Truthy(r.data.study_plan)
                /\ ~IsFunction("displayStudyPlan")

ScriptFailure ==
    /\ JustAnswered /\ lastRes'.ep \in ScriptEndpoints
    /\ FailedResponse(lastRes') \/ ScriptThrows(lastRes'.ep, lastRes'.res)
ExecFailure ==
    /\ JustAnswered /\ lastRes'.ep \in OperationArgs
    /\ ExecThrows(lastRes'.ep, lastRes'.res) \/ Truthy(lastRes'.res.data.error)
SendFailure ==
    \E i \in 1..Len(sends) :
       /\ sends[i].pc = "fetch" /\ sends'[i].pc # "fetch"
       /\ SendThrows(sends'[i].res) \/ Truthy(sends'[i].res.data.error)

\* some handler has failed
SomeFailed ==
    \/ \E i \in 1..Len(tasks) : tasks[i].pc = "failed"
    \/ \E i \in 1..Len(execs) : execs[i].pc = "failed"
    \/ \E i \in 1..Len(sends) :
          sends[i].pc = "done"
          /\ (SendThrows(sends[i].res) \/ Truthy(sends[i].res.data.error))

\* each operation can be started (while the bounds of the model leave room
\* for one more call) and each invocation in flight can take a good answer
Restartable ==
    /\ lastCall.n < MaxPageCalls
          => /\ ENABLED TranscriptFormSubmit(<<"u1">>)
             /\ ENABLED ActionBtnClick("PDF Olarak Kaydet")
             /\ Len(sends) < MaxSends => ENABLED sendAIMessage(<<" ", "a", " ">>)
             /\ Len(execs) < MaxExecs => ENABLED executeOperation("chat", FilledForm)
    /\ \A i \in 1..Len(execs) :
          execs[i].pc = "fetch"
             => ENABLED ManualRes(i, ManualJson(GoodPayload(execs[i].operation)))
    /\ \A i \in 1..Len(sends) :
          sends[i].pc = "fetch"
             => ENABLED AiAssistantRes(i, ChatJson(ChatData(Undef, Str(<<"r1">>),
                                                            Undef, Undef, Undef)))

\* C21: no failure is fatal: after a handler has failed, every operation can
\* still be started and an invocation in flight can still take a good answer,
\* and the step in which a handler fails leaves the profile (in memory and
\* stored), the curriculum cache and window.currentTranscript as they were.
C21_NoFailureFatal ==
    /\ [](SomeFailed => Restartable)
    /\ [][(ScriptFailure \/ ExecFailure \/ SendFailure)
             => /\ studentProfile' = studentProfile
                /\ localStorage' = localStorage
                /\ curriculumData' = curriculumData
                /\ currentTranscript' = currentTranscript]_vars

-----------------------------------------------------------------------------
(* Properties of the requests of the manual operations, under SpecRequest *)

\* the body of the request the call of this step has sent
NewBody == execs'[Len(execs')].request[1].body

\* executeOperation has just been run for operation and has sent a request
JustSent(operation) ==
    /\ JustCalled("executeOperation") /\ lastCall'.arg = operation /\ ~lastCall'.blocked
    /\ Len(execs') = Len(execs) + 1

\* the JSON number v is what the text of a number field reads as: the number
\* the digits spell, and null when the field holds no number
IsNumeral(text) == text # <<>> /\ \A k \in 1..Len(text) : IsDigit(text[k])
FieldNumber(text, v) ==
    IF IsNumeral(text) THEN v.t = "number" /\ NumberToString(v) = text
    ELSE v = JsonNull

\* C22: the request for generate-questions has exactly six fields: subject,
\* topic, difficulty, count and exam_type with the values of their form
\* fields (count as the number its field holds), and question_type with the
\* constant MULTIPLE_CHOICE.
C22_QuestionRequestShape ==
    [][JustSent("generate-questions")
          => /\ DOMAIN NewBody = {"subject", "topic", "difficulty", "count",
                                  "exam_type", "question_type"}
             /\ NewBody.question_type = Str(<<"MULTIPLE_CHOICE">>)
             /\ \E form \in ManualForms :
                   /\ NewBody.subject = Str(form["question-subject"].value)
                   /\ NewBody.topic = Str(form["question-topic"].value)
                   /\ NewBody.difficulty = Str(form["question-difficulty"].value)
                   /\ FieldNumber(form["question-count"].value, NewBody.count)
                   /\ NewBody.exam_type = Str(form["question-exam-type"].value)]_vars

\* a request for questions built from the form whose fields all differ is in
\* flight
C22_Witness ==
    \E i \in 1..Len(execs) :
       /\ execs[i].operation = "generate-questions" /\ execs[i].pc = "fetch"
       /\ execs[i].request[1].body.subject = Str(FilledValue("question-subject"))
       /\ execs[i].request[1].body.topic = Str(FilledValue("question-topic"))
       /\ execs[i].request[1].body.count = Num(3)

\* C23: the request for generate-study-plan carries the session profile with
\* target_exam and daily_hours replaced by the values of the form and every
\* other field copied, and the same two values as its own target_exam and
\* daily_hours.
C23_StudyPlanRequestShape ==
    [][JustSent("generate-study-plan")
          => LET sent == NewBody.student_profile IN
             /\ DOMAIN sent = DOMAIN studentProfile
             /\ \A f \in DOMAIN studentProfile \ {"target_exam", "daily_hours"} :
                   sent[f] = studentProfile[f]
             /\ sent.target_exam = NewBody.target_exam
             /\ ParseJSONNumber(sent.daily_hours) = NewBody.daily_hours
             /\ \E form \in ManualForms :
                   /\ NewBody.target_exam = Str(form["plan-target-exam"].value)
                   /\ FieldNumber(form["plan-daily-hours"].value, NewBody.daily_hours)]_vars

\* a request for a study plan is in flight that was built from the filled
\* form over a restored profile with a weak subject
C23_Witness ==
    \E i \in 1..Len(execs) :
       /\ execs[i].operation = "generate-study-plan" /\ execs[i].pc = "fetch"
       /\ studentProfile.weak_subjects = <<"fizik">>
       /\ execs[i].request[1].body.student_profile.weak_subjects = <<"fizik">>
       /\ execs[i].request[1].body.target_exam = Str(FilledValue("plan-target-exam"))
       /\ execs[i].request[1].body.daily_hours = Num(2)

-----------------------------------------------------------------------------
(* Properties of the profile, under SpecProfile *)

C25_ProfileMerge ==
    [][JustCalled("updateStudentProfile")
          => /\ profileForm'.targetExam = ""
                   => studentProfile'.target_exam = studentProfile.target_exam
             /\ profileForm'.dailyHours = <<>>
                   => studentProfile'.daily_hours = studentProfile.daily_hours
             /\ ~profileForm'.hasWeakSubjects
                   => studentProfile'.weak_subjects = studentProfile.weak_subjects
             /\ studentProfile'.student_id = studentProfile.student_id
             /\ studentProfile'.strong_subjects = studentProfile.strong_subjects]_vars

\* C26: the profile's daily_hours is a positive integer in every state.
C26_DailyHoursPositive ==
    studentProfile.daily_hours.t = "number" /\ studentProfile.daily_hours.n > 0

-----------------------------------------------------------------------------
(* Properties of the curriculum cache, under SpecCurriculum *)

\* loadCurriculum takes its answer in this step
CurriculumAnswered == JustAnswered /\ lastRes'.ep = "curriculum"

\* C27: this.curriculumData changes only in the step in which loadCurriculum
\* takes a successful answer to its one fetch, from {} to the payload of that
\* answer; a failed fetch leaves it {}, and no other handler writes it.
C27_CurriculumCacheWrittenOnce ==
    [][/\ curriculumData' # curriculumData
          => /\ CurriculumAnswered
             /\ lastRes'.res.k = "json" /\ lastRes'.res.ok
             /\ curriculumPc = "fetch" /\ curriculumPc' # "fetch"
             /\ curriculumData = EmptyCurriculum
             /\ curriculumData' = lastRes'.res.data
       /\ (CurriculumAnswered /\ (lastRes'.res.k = "reject" \/ ~lastRes'.res.ok))
          => curriculumData' = EmptyCurriculum
       /\ curriculumPc' # curriculumPc => curriculumPc = "fetch"]_vars

\* the curriculum has been loaded, a subject of the tree is open and another
\* handler has been started since
C27_Witness ==
    /\ Len(curriculumData.subjects) > 1
    /\ curriculumTree.open # {}
    /\ Len(sends) + Len(execs) + Len(tasks) > 0

-----------------------------------------------------------------------------
(* Properties of the order of the chat, under SpecChat *)

\* c from place k on, without its entries at the places in K
RECURSIVE Without(_, _, _)
Without(c, K, k) ==
    IF k > Len(c) THEN <<>>
    ELSE IF k \in K THEN Without(c, K, k + 1)
    ELSE <<c[k]>> \o Without(c, K, k + 1)

\* a begins b
IsPrefix(a, b) == Len(a) <= Len(b) /\ SubSeq(b, 1, Len(a)) = a

\* the user and assistant entries of c, in order
RECURSIVE Messages(_)
Messages(c) ==
    IF c = <<>> THEN <<>>
    ELSE IF Head(c).className = LoadingClass THEN Messages(Tail(c))
    ELSE <<Head(c)>> \o Messages(Tail(c))

\* C28: every step leaves the chat as it was but for placeholders taken out
\* and entries appended at the end: no user or assistant entry is removed,
\* edited or moved, whichever sendAIMessage calls are in flight.
C28_ChatOrderKept ==
    [][/\ \E K \in SUBSET Pending : IsPrefix(Without(chat, K, 1), chat')
       /\ IsPrefix(Messages(chat), Messages(chat'))]_vars

\* two sends were in flight together and both have been answered: the chat
\* holds both user entries and both answers, and no placeholder
C28_Witness ==
    /\ Len(sends) > 1 /\ \A i \in 1..Len(sends) : sends[i].pc = "done"
    /\ Len(chat) > 3 /\ Pending = {}
    /\ chat[1].className = UserClass /\ chat[2].className = UserClass
    /\ chat[3].className = AssistantClass /\ chat[4].className = AssistantClass

-----------------------------------------------------------------------------
(* Properties of formatMessage, under SpecFormat *)

\* the text the service answered last and what formatMessage made of it
FormatInput == lastRes.res.data.response.s
FormatOutput == Tail(manualOutput.html)
Formatted ==
    /\ lastRes.ep = "chat" /\ lastRes.res.k = "json"
    /\ manualOutput.by = "formatMessage"

\* how often the character or token c stands in s
Count(s, c) == Cardinality({k \in 1..Len(s) : s[k] = c})

\* the tags of the four patterns
PatternTags == {"<strong>", "</strong>", "<em>", "</em>", "<br>",
                "<ul>", "<li>", "</li>", "</ul>"}

\* C29: in what formatMessage returns no character of markup of the message
\* is left raw: each "<", ">" and "&" of the message stands there as its
\* entity, and every tag comes from a pattern: a <br> for each line break, a
\* <strong> pair for four asterisks and an <em> pair for two, and one list
\* around a message that starts with "- ".
C29_EscapeBeforeFormat ==
    Formatted
       => /\ \A k \in 1..Len(FormatOutput) : FormatOutput[k] \notin {"<", ">", "&"}
          /\ Count(FormatOutput, "&lt;") = Count(FormatInput, "<")
          /\ Count(FormatOutput, "&gt;") = Count(FormatInput, ">")
          /\ Count(FormatOutput, "&amp;") = Count(FormatInput, "&")
          /\ \A k \in 1..Len(FormatOutput) :
                \/ FormatOutput[k] \in PatternTags
                \/ FormatOutput[k] \in {"&lt;", "&gt;", "&amp;"}
                \/ FormatOutput[k] \in {"*", "\n", "-", " ", "x"}
          /\ Count(FormatOutput, "<br>") = Count(FormatInput, "\n")
          /\ Count(FormatOutput, "\n") = 0
          /\ Count(FormatOutput, "<strong>") = Count(FormatOutput, "</strong>")
          /\ Count(FormatOutput, "<em>") = Count(FormatOutput, "</em>")
          /\ 4 * Count(FormatOutput, "<strong>") + 2 * Count(FormatOutput, "<em>")
                + Count(FormatOutput, "*") = Count(FormatInput, "*")
          /\ \A tag \in {"<li>", "</li>", "</ul>"} :
                Count(FormatOutput, tag) = Count(FormatOutput, "<ul>")
          /\ IF Count(FormatOutput, "<ul>") = 0
             THEN Count(FormatOutput, "-") = Count(FormatInput, "-")
             ELSE /\ Count(FormatOutput, "<ul>") = 1
                  /\ SubSeq(FormatInput, 1, 2) = <<"-", " ">>
                  /\ Count(FormatOutput, "-") = Count(FormatInput, "-") - 1

\* the answer "<**>" has been shown with its brackets as entities around the
\* empty <em> element the two asterisks make
C29_Witness ==
    /\ Formatted
    /\ FormatInput = <<"<", "*", "*", ">">>
    /\ FormatOutput = <<"&lt;", "<em>", "</em>", "&gt;">>

-----------------------------------------------------------------------------
(* Properties of the response formatters, under SpecExec *)

\* C30: whatever JSON value other than null an operation is answered with,
\* if it carries no error indicator the formatter of the operation returns
\* its markup without throwing and that markup is shown; for
\* generate-questions an answer that is not a list gives the not-found text.
C30_FormattersTotal ==
    [][(/\ JustAnswered /\ lastRes'.ep \in ManualOperations
        /\ lastRes'.res.k = "json" /\ lastRes'.res.data.shape # "null"
        /\ ~Truthy(lastRes'.res.data.error))
          => LET data == lastRes'.res.data
                 operation == lastRes'.ep
             IN /\ ~RenderSuccess(data, operation).threw
                /\ execs'[lastRes'.i].pc = "done"
                /\ manualOutput'.by = SuccessRenderer(operation)
                /\ (operation = "generate-questions" /\ data.shape # "array")
                      => manualOutput'.html = <<"<p>Soru bulunamadi.</p>">>]_vars

-----------------------------------------------------------------------------
(* Properties of the curriculum tree, under SpecCurriculum *)

\* C31: for every subject of the tree, in whichever state its topics are,
\* one toggleSubject flips whether the topics are shown and whether the
\* chevron points up, and a second one brings both back; the other subjects
\* are left alone.
C31_ToggleTwiceRestores ==
    \A subject \in SubjectNames :
       LET once == ToggleTree(curriculumTree, subject)
           twice == ToggleTree(once, subject)
       IN /\ twice = curriculumTree
          /\ subject \in Shown
                => /\ (subject \in once.open) # (subject \in curriculumTree.open)
                   /\ (subject \in once.up) # (subject \in curriculumTree.up)
                   /\ once.open \ {subject} = curriculumTree.open \ {subject}
                   /\ once.up \ {subject} = curriculumTree.up \ {subject}

\* the user has toggled a subject of the loaded tree twice: its topics are
\* hidden again and its chevron points down again
C31_Witness ==
    /\ lastCall.op = "toggleSubject" /\ lastCall.n = 2
    /\ lastCall.arg \in Shown
    /\ curriculumTree.open = {} /\ curriculumTree.up = {}

-----------------------------------------------------------------------------
(* Properties of the health probe, under SpecHealth *)

\* what an answered probe leaves on the indicator
HealthShown(r) ==
    IF r.k = "reject"
    THEN Health("status-indicator status-unhealthy", <<"Baglanti Hatasi">>)
    ELSE IF r.status = Str(<<"healthy">>)
    THEN Health("status-indicator status-healthy", <<"Sistem Calisiyor">>)
    ELSE Health("status-indicator status-unhealthy", <<"Sistem Hatasi">>)

\* the probes answered in the step
ProbesAnswered == {i \in DOMAIN probes : probes[i].pc = "fetch" /\ probes'[i].pc = "done"}

\* C32: a health probe, started or answered at any point between the user's
\* operations, changes the status indicator and nothing else: not the
\* profile in memory or in localStorage, the chat, the curriculum cache and
\* tree, the transcript, the loading indicator, the result slots or the calls
\* in flight; the indicator changes only when a probe is answered, and then
\* shows that answer; and whatever the probes before it came to, failed ones
\* included, the timer can start the next probe
C32_ProbeChangesOnlyHealth ==
    /\ [](Len(probes) < MaxProbes => ENABLED checkHealth)
    /\ [][/\ probes' # probes => UNCHANGED <<chatVars, manualVars, treeVars, scriptVars>>
          /\ health' # health => ProbesAnswered # {}
          /\ \A i \in ProbesAnswered : health' = HealthShown(probes'[i].res)]_vars

\* the first probe has failed and the second one has come back healthy while
\* a manual operation is in flight, its loading indicator up
C32_Witness ==
    /\ Len(probes) = 2
    /\ probes[1] = Probe("done", HealthReject)
    /\ probes[2] = Probe("done", HealthJson(<<"healthy">>))
    /\ health = Health("status-indicator status-healthy", <<"Sistem Calisiyor">>)
    /\ manualLoading
    /\ \E i \in DOMAIN execs : execs[i].pc # "done"
-----------------------------------------------------------------------------
(* Properties of the markup written, under SpecMarkup *)

\* the markup holds a character that opens or closes a tag: the tags the
\* page writes itself are one token each, so such a character came with a text
Live(html) == \E k \in DOMAIN html : html[k] \in {"<", ">"}

\* what did pass through escapeHtml: the texts of the chat, the user's and
\* the assistant's, and the chat and analysis texts of the manual output
EscapedOutputs ==
    /\ \A k \in DOMAIN chat : ~Live(MessageHtml(chat[k]))
    /\ manualOutput.by \in {"formatMessage", "formatAnalysis"} => ~Live(manualOutput.html)

\* C33: no text of a remote payload reaches the chat or the manual output as
\* live markup: the chat response, the error message, the question texts,
\* the study plan's strategy and weeks, the titles and contents of search
\* results and the analysis text are all escaped before they are written,
\* and so is the text the user sends to the chat
C33_NoLiveRemoteMarkup ==
    /\ \A k \in DOMAIN chat : ~Live(MessageHtml(chat[k]))
    /\ ~Live(manualOutput.html)
-----------------------------------------------------------------------------
(* Properties of the result slots, under SpecSlots *)

\* what the answer r to the manual operation leaves in #manual-output
ManualShown(r, operation) ==
    IF r.k = "reject" THEN displayManualError(r.message)
    ELSE LET shown == displayManualResult(r.data, operation) IN
         IF shown.threw THEN displayManualError(shown.message) ELSE shown.output

\* the invocations of executeOperation answered in the step, and the derived
\* analysis steps whose response arrives in the step
ExecsAnswered == {i \in DOMAIN execs : execs[i].pc = "fetch" /\ execs'[i].pc # "fetch"}
StepsAnswered ==
    {i \in DOMAIN tasks : /\ tasks[i].kind = "click"
                          /\ tasks[i].pc = tasks[i].taskName
                          /\ tasks[i].taskName \notin {"export_pdf", "search_similar"}
                          /\ tasks'[i].pc = "done"}

\* C34: the result slots are last-resolver-wins: whenever an answer to an
\* execute call arrives, #manual-output is overwritten with what that answer
\* shows, and whenever the response of a derived analysis step arrives,
\* #summary-output is overwritten with its result, whether or not the
\* invocation is the one triggered last and whatever else is in flight; so
\* of two overlapping invocations the slot ends with the one answered last
C34_LastResolverWins ==
    [][/\ \A i \in ExecsAnswered :
             manualOutput' = ManualShown(lastRes'.res, execs[i].operation)
       /\ \A i \in StepsAnswered :
             summaryOutput' = ToText(lastRes'.res.result)]_vars

\* two execute calls overlapped, the second was answered first, and the slot
\* shows the result of the first, the one answered last
C34_Witness ==
    /\ Len(execs) = 2
    /\ execs[1].pc = "done" /\ execs[2].pc = "done"
    /\ execs[1].operation # execs[2].operation
    /\ lastRes.i = 1 /\ lastRes.ep = execs[1].operation
    /\ manualOutput = Output("", SuccessRenderer(execs[1].operation),
                             RenderSuccess(GoodPayload(execs[1].operation),
                                           execs[1].operation).html)

\* two derived analysis steps overlapped, the second one's result arrived
\* first, and the response of the first, a failure status without a result,
\* has emptied the slot
SlotsWitnessDerived ==
    /\ Len(tasks) = 3
    /\ tasks[2].pc = "done" /\ tasks[3].pc = "done"
    /\ lastRes = [i |-> 2, ep |-> tasks[2].taskName, res |-> Json(FALSE, Undef)]
    /\ summaryOutput = <<>>
    /\ status = StatusDone(tasks[2].label)
-----------------------------------------------------------------------------
(* Properties of the pending placeholders, under SpecChat *)

\* as many placeholders as requests in flight
PendingCountMatches == Cardinality(Pending) = Cardinality(InFlight)

\* a request in flight still has the placeholder it appended
OwnPlaceholderKept == \A i \in InFlight : EntriesOf(i, LoadingClass) # {}

\* C35: in every reachable state the chat holds as many pending placeholders
\* as there are chat requests in flight: each send has added one, each answer
\* or failure has removed one, and never the placeholder of another request
\* that is still in flight, so every request in flight has its own
\* placeholder and no request that has ended has one
C35_PendingMatchesInFlight ==
    /\ PendingCountMatches
    /\ OwnPlaceholderKept
    /\ \A i \in Resolved : EntriesOf(i, LoadingClass) = {}
-----------------------------------------------------------------------------
(* Properties of the text a derived step sends, under SpecTask *)

\* the derived steps waiting on a response
StepsInFlight ==
    {i \in DOMAIN tasks : tasks[i].kind = "click" /\ tasks[i].pc \notin {"done", "failed"}}

\* C36: a derived analysis step sends the transcript as it is when the step
\* is triggered: a submit leaves window.currentTranscript as it was, so a
\* click made while an acquisition chain is in flight passes the test of the
\* transcript and sends the transcript of the chain before, and the request
\* a step has sent stays as it was sent when a chain completes and writes a
\* new transcript while the step is in flight
C36_StepSendsArtifactAtTrigger ==
    [][/\ JustCalled("submit") => currentTranscript' = currentTranscript
       /\ (JustCalled("click") /\ lastCall'.arg # "export_pdf" /\ Truthy(currentTranscript))
             => /\ ~lastCall'.blocked
                /\ Len(tasks') = Len(tasks) + 1
                /\ tasks'[Len(tasks')].log[1].body.text = currentTranscript
       /\ \A i \in StepsInFlight :
             tasks'[i].pc \notin {"done", "failed"} => tasks'[i].log[1] = tasks[i].log[1]]_vars

\* a step triggered after two submits, one of their chains still in flight,
\* has sent the transcript "t1" and is in flight, and the other chain has
\* since written "t2"
C36_Witness ==
    /\ Len(tasks) = 3
    /\ tasks[1].kind = "submit" /\ tasks[2].kind = "submit"
    /\ tasks[3].kind = "click" /\ tasks[3].pc = "summarize"
    /\ tasks[3].log[1].body.text = Str(<<"t1">>)
    /\ currentTranscript = Str(<<"t2">>)
-----------------------------------------------------------------------------
(* Properties of the loading indicator, under SpecExec *)

\* C37: executeOperation with an operation shows the loading indicator and
\* then issues its call; every answer to a call, a result, an error payload
\* or a failure, hides the indicator, which shows the output; with no call
\* in flight the indicator is hidden; and executeOperation with an empty
\* operation changes nothing and issues no call
C37_LoadingIndicator ==
    /\ [](ExecsInFlight = {} => ~manualLoading)
    /\ [][/\ (JustCalled("executeOperation") /\ lastCall'.arg # "")
                => /\ manualLoading'
                   /\ execs' = Append(execs, execs'[Len(execs')])
                   /\ execs'[Len(execs')].pc = "fetch"
                   /\ execs'[Len(execs')].operation = lastCall'.arg
          /\ (JustCalled("executeOperation") /\ lastCall'.arg = "")
                => UNCHANGED <<manualVars, chatVars, treeVars, healthVars, scriptVars>>
          /\ (\E i \in ExecsInFlight : execs'[i].pc # "fetch") => ~manualLoading']_vars

\* two calls have ended, one answered and one failed in transport; the
\* indicator is hidden and the output shows the error
C37_Witness ==
    /\ Len(execs) = 2 /\ ExecsInFlight = {}
    /\ \E i \in DOMAIN execs : execs[i].pc = "done"
    /\ lastRes.res = ManualReject
    /\ ~manualLoading
    /\ manualOutput = displayManualError(<<"Failed to fetch">>)
-----------------------------------------------------------------------------
(* Properties of what executeOperation leaves alone, under SpecExec *)

\* C38: executeOperation reads the session and writes none of it: for every
\* operation, form and answer, the step that runs it and the step that takes
\* its answer change the loading indicator, #manual-output and the record of
\* the calls, and leave the profile in memory, the profile in localStorage,
\* the chat, the curriculum cache and the transcript as they were; the
\* target exam and daily hours of the study plan form go into the request
\* and not into the profile
C38_ExecuteReadOnly ==
    [][(JustCalled("executeOperation") \/ execs' # execs)
          => /\ UNCHANGED <<studentProfile, localStorage, chat, sends, curriculumData,
                            currentTranscript>>
             /\ UNCHANGED <<aiInput, profileForm, notifications, curriculumTree,
                            curriculumPc, healthVars, status, transcriptOutput,
                            summaryOutput, downloads, tasks>>
             /\ JustSent("generate-study-plan")
                   => \E form \in ManualForms :
                         /\ NewBody.daily_hours = StringifyNumber(
                                ParseInt(form["plan-daily-hours"].value))
                         /\ NewBody.student_profile.daily_hours
                               = JSONNumberText(ParseInt(form["plan-daily-hours"].value))]_vars

\* a study plan was asked for twice with 2 daily hours in the form, one
\* call is answered and one in flight; the profile still has its 6 daily
\* hours and nothing is stored
C38_Witness ==
    /\ \E i \in DOMAIN execs :
          execs[i].operation = "generate-study-plan" /\ execs[i].pc = "done"
    /\ \E i \in DOMAIN execs :
          /\ execs[i].operation = "generate-study-plan" /\ execs[i].pc = "fetch"
          /\ execs[i].request[1].body.daily_hours = Num(2)
    /\ studentProfile = DefaultProfile
    /\ localStorage = <<>>
    /\ manualOutput.by = "formatStudyPlan"
-----------------------------------------------------------------------------
(* Properties of the start of a session, under SpecProfile *)

\* the page has just been loaded: nothing has been done on it since
JustLoaded == lastCall = NoCall \/ lastCall.op = "reload"

\* C39: when the page starts over a stored profile, the profile in memory is
\* the stored value read back, every field of it, in place of the defaults;
\* when nothing is stored, the profile in memory is the defaults: target
\* exam TYT, 6 daily hours, no weak and no strong subjects, no student id;
\* and localStorage is written by updateStudentProfile only, so not before
\* the first profile update
C39_SessionStartRestore ==
    /\ [](JustLoaded
            => IF localStorage # <<>>
               THEN studentProfile = ParseProfile(localStorage[1])
               ELSE studentProfile =
                       [student_id |-> "null", target_exam |-> "TYT",
                        daily_hours |-> Num(6), weak_subjects |-> <<>>,
                        strong_subjects |-> <<>>])
    /\ [][localStorage' # localStorage => JustCalled("updateStudentProfile")]_vars

\* the page has been loaded again over the profile an update of this run
\* stored, and holds it: AYT, a weak subject, not the defaults
C39_Witness ==
    /\ lastCall.op = "reload" /\ lastCall.n > 1
    /\ localStorage # <<>>
    /\ studentProfile = ParseProfile(localStorage[1])
    /\ studentProfile.target_exam = "AYT"
    /\ studentProfile.weak_subjects # <<>>
    /\ studentProfile.daily_hours # Num(6)
====
